---- MODULE Spec2Model ----
\* Verification model of alfkoehn/fusion_plots:
\*   src/fusion_reactivity/fusion_reactivity.py         (specification Spec)
\*   src/fusion_cross_sections/fusion_cross_sections.py (specification SpecXS)
\*   the total D-D curves of the plotting scripts       (specification SpecDD)
\*   src/binding_energy/plot_binding_energy.py          (specification SpecNIST)
\*   src/plasma_zoo/plasma_zoo.py                       (specification SpecZoo)
\*   single-value calls and the output step of the scripts (specification SpecRun)
\*   src/CMA_diagram/CMA_diagram.py                     (specification SpecCMA)
\*   src/triple_product_vs_T/triple_product_vs_T.py and
\*   src/triple_product_vs_time/nTtau_vs_time.py        (specification SpecTP)
\*
\* The functions are pure; the state machine is a call harness: one action per
\* function, which draws the arguments from small sets, evaluates the function
\* as its code does and records the outcome (the value returned or the
\* exception raised) together with everything printed to the console; where a
\* function draws, out holds the calls it makes on the figure instead.
\*
\* Temperatures and energies are integers in units of 0.01 keV (1 keV = 100).
\* A floating-point result of a fit formula is carried as the term
\* [fit, reaction, T] naming the formula, its coefficient set and the abscissa
\* it was evaluated at; np.nan is the distinct term NaN.
EXTENDS Integers, Sequences, FiniteSets, TLC

VARIABLES call, ret, out

vars == <<call, ret, out>>

\* ------------------------------------------------------------------ bounds
\* longest temperature / energy array passed to a function
MaxLen == 2
\* integer reaction codes 0..MaxReactionInt are tried (1..9 are the known ones)
MaxReactionInt == 10

\* ------------------------------------------------------------------ values
\* np.nan
NaN == [fit |-> "nan", reaction |-> "nan", T |-> 0]
\* the finite value a fit formula yields at abscissa t (t > 0 on the grids used)
Val(fit, reaction, t) == [fit |-> fit, reaction |-> reaction, T |-> t]
\* a + b of two floats: NaN is absorbing
Add(a, b) == IF a = NaN \/ b = NaN THEN NaN
             ELSE [fit |-> a.fit \o "+" \o b.fit,
                   reaction |-> a.reaction \o "+" \o b.reaction, T |-> a.T]

\* a Python float / numpy scalar (v holds its one value), and a numpy array
Scalar(t) == [shape |-> "scalar", v |-> <<t>>]
Array(s)  == [shape |-> "array", v |-> s]

\* outcomes of a call: an exception, a str, a float (v holds its one value), an array
Raise(exc)   == [kind |-> "raise",  v |-> <<>>,  str |-> "", exc |-> exc]
RetStr(s)    == [kind |-> "str",    v |-> <<>>,  str |-> s,  exc |-> ""]
RetScalar(x) == [kind |-> "scalar", v |-> <<x>>, str |-> "", exc |-> ""]
RetArray(a)  == [kind |-> "array",  v |-> a,     str |-> "", exc |-> ""]
RetOf(x)     == IF x.shape = "scalar" THEN RetScalar(x.v[1]) ELSE RetArray(x.v)

\* a reaction identifier as a caller may pass it: a Python int or a Python str
IntId(k) == [type |-> "int", n |-> k, str |-> ""]
StrId(s) == [type |-> "str", n |-> 0, str |-> s]
IsInt(id) == id.type = "int"

\* np.size, np.amin, np.amax
Size(x) == Len(x.v)
Elems(x) == {x.v[i] : i \in DOMAIN x.v}
AMin(x) == CHOOSE m \in Elems(x) : \A e \in Elems(x) : m <= e
AMax(x) == CHOOSE m \in Elems(x) : \A e \in Elems(x) : m >= e

\* a formula applied element-wise (numpy broadcasting)
Broadcast(fit, reaction, x) ==
    [shape |-> x.shape, v |-> [i \in DOMAIN x.v |-> Val(fit, reaction, x.v[i])]]

\* ------------------------------------------------- fusion_reactivity.py
\* mutant: the codes of the two D-D branches are exchanged
reaction_dict_mut_swapped ==
    [k \in 1..9 |-> CASE k = 1 -> "DT"     [] k = 2 -> "DD_b"   [] k = 3 -> "DD_a"
                      [] k = 4 -> "3HeD"   [] k = 5 -> "TT"     [] k = 6 -> "T3He"
                      [] k = 7 -> "3He3He" [] k = 8 -> "p11B"   [] k = 9 -> "pp"]

\* reaction_dict of reaction_int2str
reaction_dict ==
    [k \in 1..9 |-> CASE k = 1 -> "DT"     [] k = 2 -> "DD_a"   [] k = 3 -> "DD_b"
                      [] k = 4 -> "3HeD"   [] k = 5 -> "TT"     [] k = 6 -> "T3He"
                      [] k = 7 -> "3He3He" [] k = 8 -> "p11B"   [] k = 9 -> "pp"]

\* '{:d}'.format(x): ValueError unless x is an integer
FormatD_ok(id) == IsInt(id)

\* mutant: a string argument is handed back as it came
reaction_int2str_mut_passthrough(reaction_int, silent) ==
    IF ~IsInt(reaction_int)
    THEN [ret |-> RetStr(reaction_int.str), out |-> <<>>]
    ELSE [ret |-> RetStr(IF reaction_int.n \in DOMAIN reaction_dict
                         THEN reaction_dict[reaction_int.n] ELSE "NaN"),
          out |-> <<>>]

\* reaction_int2str( reaction_int, silent=True )
reaction_int2str(reaction_int, silent) ==
    LET known == IsInt(reaction_int) /\ reaction_int.n \in DOMAIN reaction_dict
        reaction_str == IF known THEN reaction_dict[reaction_int.n] ELSE "NaN"
        o1 == IF known THEN <<>>
              ELSE <<"reaction_int: ERROR, no reaction for found for provided key">>
    IN  IF silent THEN [ret |-> RetStr(reaction_str), out |-> o1]
        ELSE IF FormatD_ok(reaction_int)
             THEN [ret |-> RetStr(reaction_str),
                   out |-> Append(o1, "reaction_int: reaction_int, reaction_str")]
             ELSE [ret |-> Raise("ValueError"), out |-> o1]

\* mutant: the bounds of the range are themselves outside
OutOfRange_mut_exclusive(t, energy_range) == t <= energy_range[1] \/ t >= energy_range[2]

\* the block "check if T_ion is within valid energy range" that closes every
\* reactivity function (lines 214-232, 341-359, 507-525, 593-611, 672-690)
OutOfRange(t, energy_range) == t < energy_range[1] \/ t > energy_range[2]

\* mutant: the upper bound is not masked
mask_mut_lower_only(T_ion, sigma_v, energy_range) ==
    [i \in DOMAIN T_ion.v |->
        IF T_ion.v[i] < energy_range[1] THEN NaN ELSE sigma_v.v[i]]

\* sigma_v[ T_ion < energy_range[0] ] = np.nan ; sigma_v[ T_ion > energy_range[1] ] = np.nan
mask(T_ion, sigma_v, energy_range) ==
    [i \in DOMAIN T_ion.v |->
        IF OutOfRange(T_ion.v[i], energy_range) THEN NaN ELSE sigma_v.v[i]]

range_check(func_name, T_ion, sigma_v, energy_range, extrapolate) ==
    IF Size(T_ion) = 0
    THEN \* np.amin of a zero-size array
         [ret |-> Raise("ValueError"), out |-> <<>>]
    ELSE IF AMin(T_ion) < energy_range[1] \/ AMax(T_ion) > energy_range[2]
    THEN LET warn == <<func_name, "WARNING: T_ion is outside of valid energy range">>
         IN  IF extrapolate
             THEN [ret |-> RetOf(sigma_v),
                   out |-> Append(warn, "extrapolate was set to True (data will be extrapolated)")]
             ELSE [ret |-> IF Size(T_ion) > 1
                           THEN RetArray(mask(T_ion, sigma_v, energy_range))
                           ELSE RetScalar(NaN),
                   out |-> Append(warn, "extrapolate was set to False (data will be set to NaN)")]
    ELSE [ret |-> RetOf(sigma_v), out |-> <<>>]

\* the lines printed when silent is False, before the coefficients are chosen;
\* the last one formats the reaction with {0:d}
info(func_name, silent) ==
    IF silent THEN <<>>
    ELSE <<func_name, "fusion reactivity as obtained from the following paper:",
           "(more info in doc-string)">>
info_reaction(silent) == IF silent THEN <<>> ELSE <<"reaction, T_ion">>
info_result(silent) == IF silent THEN <<>> ELSE <<"==> <sigma*v>">>

\* valid energy ranges, in 0.01 keV
energy_range_Hively == <<100, 8000>>
energy_range_Bosch  == <<20, 10000>>
\* np.array([.001, 10.])*1e9/eV2K*1e-3 = [0.0861733, 861.733] keV; for abscissae that
\* are whole multiples of 0.01 keV, T < 0.0861733 iff T < 0.09 and T > 861.733 iff T > 861.73
energy_range_Angulo == <<9, 86173>>
energy_range_Atzeni == <<10, 100000>>

\* the coefficient set the if/elif chain of a fit selects, "none" when no branch matches
coeffs_Hively(reaction_str) ==
    CASE reaction_str \in {"DT", "TD"}     -> "DT"
      [] reaction_str = "DD_a"             -> "DD_a"
      [] reaction_str = "DD_b"             -> "DD_b"
      [] reaction_str \in {"3HeD", "D3He"} -> "3HeD"
      [] OTHER                             -> "none"

coeffs_Bosch(reaction_str) ==
    CASE reaction_str \in {"DT", "TD"}     -> "DT"
      [] reaction_str = "DD_a"             -> "DD_a"
      [] reaction_str = "DD_b"             -> "DD_b"
      [] reaction_str \in {"3HeD", "D3He"} -> "3HeD"
      [] OTHER                             -> "none"

\* get_fusion_reactivity_Hively( T_ion, reaction=1, extrapolate=True, silent=True )
get_fusion_reactivity_Hively(T_ion, reaction, extrapolate, silent) ==
    LET func_name == "get_fusion_reactivity_Hively"
        s == reaction_int2str(reaction, TRUE)
        reaction_str == s.ret.str
        c == coeffs_Hively(reaction_str)
    IN  IF ~silent /\ ~FormatD_ok(reaction)
        THEN [ret |-> Raise("ValueError"), out |-> s.out \o info(func_name, silent)]
        ELSE IF c = "none"
        THEN \* a1 ... r are not bound when Eq. (5) reads them
             [ret |-> Raise("UnboundLocalError"),
              out |-> s.out \o info(func_name, silent) \o info_reaction(silent)]
        ELSE LET sigma_v == Broadcast("Hively", c, T_ion)
                 m == range_check(func_name, T_ion, sigma_v, energy_range_Hively, extrapolate)
             IN  [ret |-> m.ret,
                  out |-> s.out \o info(func_name, silent) \o info_reaction(silent)
                          \o info_result(silent) \o m.out]

\* get_fusion_reactivity_Bosch( T_ion, reaction=1, extrapolate=True, silent=True )
get_fusion_reactivity_Bosch(T_ion, reaction, extrapolate, silent) ==
    LET func_name == "get_fusion_reactivity_Bosch"
        s == reaction_int2str(reaction, silent)
    IN  IF s.ret.kind = "raise" THEN s
        ELSE LET reaction_str == s.ret.str
                 c == coeffs_Bosch(reaction_str)
                 o1 == s.out \o info(func_name, silent) \o info_reaction(silent)
             IN  IF c = "none"
                 THEN \* c2 ... are not bound when Eq. (13) reads them
                      [ret |-> Raise("UnboundLocalError"), out |-> o1]
                 ELSE LET sigma_v == Broadcast("Bosch", c, T_ion)
                          m == range_check(func_name, T_ion, sigma_v,
                                           energy_range_Bosch, extrapolate)
                      IN  [ret |-> m.ret, out |-> o1 \o info_result(silent) \o m.out]

\* T_ion_tabulated of get_fusion_reactivity_McNally, in 0.01 keV
T_ion_tabulated ==
    <<100, 200, 300, 400, 500, 600, 700, 800, 900,
      1000, 2000, 3000, 4000, 5000, 6000, 7000, 8000, 9000,
      10000, 20000, 30000, 40000, 50000, 60000, 70000, 80000, 90000,
      100000>>

\* energy_range = [ np.amin(T_ion_tabulated), np.amax(T_ion_tabulated) ]
energy_range_McNally ==
    <<AMin(Array(T_ion_tabulated)), AMax(Array(T_ion_tabulated))>>

\* the table the if/elif chain of McNally selects, "none" when no branch matches
coeffs_McNally(reaction_str) ==
    CASE reaction_str = "DD_b"             -> "DD_b"
      [] reaction_str = "DD_a"             -> "DD_a"
      [] reaction_str \in {"DT", "TD"}     -> "DT"
      [] reaction_str = "TT"               -> "TT"
      [] reaction_str \in {"T3He", "3HeT"} -> "T3He"
      [] reaction_str \in {"D3He", "3HeD"} -> "3HeD"
      [] reaction_str = "3He3He"           -> "3He3He"
      [] reaction_str \in {"p11B", "11Bp"} -> "p11B"
      [] OTHER                             -> "none"

\* log_interp1d(xVals, yVals, kind='linear') applied to x_new: scipy's interp1d is
\* built without fill_value, so bounds_error is True and a value of x_new outside
\* [xVals[0], xVals[-1]] raises ValueError. The T3He table holds .0 at its first nine
\* abscissae: np.log10 turns them into -inf (a warning, no exception) and the linear
\* interpolation on an interval with a -inf end is nan, up to the tenth abscissa
log_interp1d(xVals, table, x_new) ==
    IF \E e \in Elems(x_new) : e < xVals[1] \/ e > xVals[Len(xVals)]
    THEN [ret |-> Raise("ValueError"), out |-> <<>>]
    ELSE [ret |-> RetOf([shape |-> x_new.shape,
                         v |-> [i \in DOMAIN x_new.v |->
                                  IF table = "T3He" /\ x_new.v[i] <= xVals[10]
                                  THEN NaN ELSE Val("McNally", table, x_new.v[i])]]),
          out |-> <<>>]

\* get_fusion_reactivity_McNally( T_ion, reaction=1, extrapolate=True, silent=True )
get_fusion_reactivity_McNally(T_ion, reaction, extrapolate, silent) ==
    LET func_name == "get_fusion_reactivity_McNally"
        s == reaction_int2str(reaction, silent)
    IN  IF s.ret.kind = "raise" THEN s
        ELSE LET reaction_str == s.ret.str
                 c == coeffs_McNally(reaction_str)
                 o1 == s.out \o info(func_name, silent) \o info_reaction(silent)
             IN  IF c = "none"
                 THEN \* sigma_v is not bound when log_interp1d is called with it
                      [ret |-> Raise("UnboundLocalError"), out |-> o1]
                 ELSE LET f == log_interp1d(T_ion_tabulated, c, T_ion)
                      IN  IF f.ret.kind = "raise"
                          THEN [ret |-> f.ret, out |-> o1]
                          ELSE LET sigma_v == [shape |-> f.ret.kind, v |-> f.ret.v]
                                   m == range_check(func_name, T_ion, sigma_v,
                                                    energy_range_McNally, extrapolate)
                               IN  [ret |-> m.ret, out |-> o1 \o m.out]

\* print( '{0}: ERROR, no such reaction' ) ; return np.nan
no_such_reaction(func_name) ==
    [ret |-> RetScalar(NaN), out |-> <<func_name, "ERROR, no such reaction">>]

\* get_fusion_reactivity_Angulo( T_ion, reaction=9, reaction_str='', extrapolate=True, silent=True )
get_fusion_reactivity_Angulo(T_ion, reaction, reaction_str_arg, extrapolate, silent) ==
    LET func_name == "get_fusion_reactivity_Angulo"
        s == IF reaction_str_arg = ""
             THEN reaction_int2str(reaction, silent)
             ELSE [ret |-> RetStr(reaction_str_arg), out |-> <<>>]
    IN  IF s.ret.kind = "raise" THEN s
        ELSE IF ~silent /\ ~FormatD_ok(reaction)
        THEN [ret |-> Raise("ValueError"), out |-> s.out \o info(func_name, silent)]
        ELSE LET reaction_str == s.ret.str
                 o1 == s.out \o info(func_name, silent) \o info_reaction(silent)
             IN  IF reaction_str # "pp"
                 THEN LET e == no_such_reaction(func_name)
                      IN  [ret |-> e.ret, out |-> o1 \o e.out]
                 ELSE LET sigma_v == Broadcast("Angulo", "pp", T_ion)
                          m == range_check(func_name, T_ion, sigma_v,
                                           energy_range_Angulo, extrapolate)
                      IN  [ret |-> m.ret, out |-> o1 \o info_result(silent) \o m.out]

\* get_fusion_reactivity_Atzeni( T_ion, reaction=9, reaction_str='', extrapolate=True, silent=True )
get_fusion_reactivity_Atzeni(T_ion, reaction, reaction_str_arg, extrapolate, silent) ==
    LET func_name == "get_fusion_reactivity_Atzeni"
        s == IF reaction_str_arg = ""
             THEN reaction_int2str(reaction, silent)
             ELSE [ret |-> RetStr(reaction_str_arg), out |-> <<>>]
    IN  IF s.ret.kind = "raise" THEN s
        ELSE IF ~silent /\ ~FormatD_ok(reaction)
        THEN [ret |-> Raise("ValueError"), out |-> s.out \o info(func_name, silent)]
        ELSE LET reaction_str == s.ret.str
                 o1 == s.out \o info(func_name, silent) \o info_reaction(silent)
             IN  IF reaction_str # "pp"
                 THEN LET e == no_such_reaction(func_name)
                      IN  [ret |-> e.ret, out |-> o1 \o e.out]
                 ELSE LET sigma_v == Broadcast("Atzeni", "pp", T_ion)
                          m == range_check(func_name, T_ion, sigma_v,
                                           energy_range_Atzeni, extrapolate)
                      IN  [ret |-> m.ret, out |-> o1 \o m.out]

\* -------------------------------------------------------- the call harness
\* temperatures tried, in 0.01 keV: below every range, on and between the bounds
\* of the five fits, above every range
TSet == {5, 9, 20, 100, 1000, 8000, 10000, 90000, 100000, 200000}

\* arrays of at most MaxLen sample temperatures, and single temperatures
Seqs(S, n) == UNION {[1..k -> S] : k \in 0..n}
TArgs == {Scalar(t) : t \in TSet} \cup {Array(s) : s \in Seqs(TSet, MaxLen)}

\* reaction identifiers tried: integer codes, canonical strings, an unknown string
ReactionIds ==
    {IntId(k) : k \in 0..MaxReactionInt} \cup {StrId(s) : s \in {"DT", "DD_a", "pp", "XY"}}

Init ==
    /\ call = [fn |-> "none", T_ion |-> Array(<<>>), reaction |-> IntId(0),
               reaction_str |-> "", extrapolate |-> TRUE, silent |-> TRUE]
    /\ ret = [kind |-> "none", v |-> <<>>, str |-> "", exc |-> ""]
    /\ out = <<>>

\* No function of the two modules keeps state between calls (no module-level
\* variable is written), so a behaviour is one call made from the idle state.
Idle == call.fn = "none"

\* the arguments of a call, as the harness records them
CallRec(fn, T, id, rstr, ex, silent) ==
    [fn |-> fn, T_ion |-> T, reaction |-> id, reaction_str |-> rstr,
     extrapolate |-> ex, silent |-> silent]

Call_reaction_int2str ==
    /\ Idle
    /\ \E id \in ReactionIds, silent \in BOOLEAN :
        LET o == reaction_int2str(id, silent)
        IN  /\ call' = CallRec("reaction_int2str", Array(<<>>), id, "", TRUE, silent)
            /\ ret' = o.ret
            /\ out' = o.out

Call_Hively ==
    /\ Idle
    /\ \E T \in TArgs, id \in ReactionIds, ex \in BOOLEAN, silent \in BOOLEAN :
        LET o == get_fusion_reactivity_Hively(T, id, ex, silent)
        IN  /\ call' = CallRec("Hively", T, id, "", ex, silent)
            /\ ret' = o.ret
            /\ out' = o.out

Call_Bosch ==
    /\ Idle
    /\ \E T \in TArgs, id \in ReactionIds, ex \in BOOLEAN, silent \in BOOLEAN :
        LET o == get_fusion_reactivity_Bosch(T, id, ex, silent)
        IN  /\ call' = CallRec("Bosch", T, id, "", ex, silent)
            /\ ret' = o.ret
            /\ out' = o.out

Call_McNally ==
    /\ Idle
    /\ \E T \in TArgs, id \in ReactionIds, ex \in BOOLEAN, silent \in BOOLEAN :
        LET o == get_fusion_reactivity_McNally(T, id, ex, silent)
        IN  /\ call' = CallRec("McNally", T, id, "", ex, silent)
            /\ ret' = o.ret
            /\ out' = o.out

\* reaction_str is either left at its default '' or given; when it is given the
\* reaction code is left at its default 9
StrArgs == {<<id, "">> : id \in ReactionIds}
           \cup {<<IntId(9), s>> : s \in {"pp", "DT"}}

Call_Angulo ==
    /\ Idle
    /\ \E T \in TArgs, a \in StrArgs, ex \in BOOLEAN, silent \in BOOLEAN :
        LET o == get_fusion_reactivity_Angulo(T, a[1], a[2], ex, silent)
        IN  /\ call' = CallRec("Angulo", T, a[1], a[2], ex, silent)
            /\ ret' = o.ret
            /\ out' = o.out

Call_Atzeni ==
    /\ Idle
    /\ \E T \in TArgs, a \in StrArgs, ex \in BOOLEAN, silent \in BOOLEAN :
        LET o == get_fusion_reactivity_Atzeni(T, a[1], a[2], ex, silent)
        IN  /\ call' = CallRec("Atzeni", T, a[1], a[2], ex, silent)
            /\ ret' = o.ret
            /\ out' = o.out

Next ==
    \/ Call_reaction_int2str
    \/ Call_Hively
    \/ Call_Bosch
    \/ Call_McNally
    \/ Call_Angulo
    \/ Call_Atzeni

Spec == Init /\ [][Next]_vars

\* ------------------------------------------------ fusion_cross_sections.py
\* x * factor for a float x: NaN stays NaN
Times(x, factor) ==
    IF x = NaN THEN NaN
    ELSE [fit |-> x.fit \o "*" \o factor, reaction |-> x.reaction, T |-> x.T]

\* keys of cross_section_coefficients in cross_section_NRL
cross_section_coefficients == {"DD_a", "DD_b", "DT", "DHe3", "TT", "THe3"}

\* cross_section_NRL(E, reaction='DT')
cross_section_NRL(E, reaction) ==
    IF reaction \notin cross_section_coefficients
    THEN \* A = cross_section_coefficients[reaction]
         [ret |-> Raise("KeyError"), out |-> <<>>]
    ELSE [ret |-> RetOf(Broadcast("NRL", reaction, E)), out |-> <<>>]

\* the if/elif chain of cross_section_Bosch: the coefficient set (B_G, A, B) and the
\* valid energy range (in 0.01 keV) a reaction selects; the 'DD' branch binds neither
\* and returns early; with no branch taken nothing is bound
Bosch_branch(reaction) ==
    CASE reaction \in {"DT", "TD"}     -> [c |-> "DT",   energy_range |-> <<50, 55000>>]
      [] reaction \in {"He3D", "DHe3"} -> [c |-> "DHe3", energy_range |-> <<30, 90000>>]
      [] reaction = "DD"               -> [c |-> "DD",   energy_range |-> <<0, 0>>]
      [] reaction = "DD_a"             -> [c |-> "DD_a", energy_range |-> <<50, 500000>>]
      [] reaction = "DD_b"             -> [c |-> "DD_b", energy_range |-> <<50, 490000>>]
      [] OTHER                         -> [c |-> "none", energy_range |-> <<0, 0>>]

\* the two reaction strings the 'DD' branch passes on
DD_branch_calls == <<"DT_a", "DT_b">>

\* sigma_T[ T < energy_range[0] ] = np.nan ; sigma_T[ T > energy_range[1] ] = np.nan ;
\* return sigma_T*1e-3
set_nan_and_scale(T, sigma_T, energy_range) ==
    [i \in DOMAIN T.v |->
        Times(IF T.v[i] < energy_range[1] \/ T.v[i] > energy_range[2]
              THEN NaN ELSE sigma_T.v[i], "1e-3")]

RECURSIVE cross_section_Bosch(_, _)
\* cross_section_Bosch( T_ion, reaction='DT' )
cross_section_Bosch(T_ion, reaction) ==
    LET b == Bosch_branch(reaction)
    IN  IF b.c = "DD"
        THEN LET sigma_T_a == cross_section_Bosch(T_ion, DD_branch_calls[1])
             IN  IF sigma_T_a.ret.kind = "raise" THEN sigma_T_a
                 ELSE LET sigma_T_b == cross_section_Bosch(T_ion, DD_branch_calls[2])
                      IN  IF sigma_T_b.ret.kind = "raise" THEN sigma_T_b
                          ELSE [ret |-> [kind |-> sigma_T_a.ret.kind,
                                         v |-> [i \in DOMAIN sigma_T_a.ret.v |->
                                                  Add(sigma_T_a.ret.v[i], sigma_T_b.ret.v[i])],
                                         str |-> "", exc |-> ""],
                                out |-> <<>>]
        ELSE IF b.c = "none"
        THEN \* S_func(T) reads A, which no branch has bound
             [ret |-> Raise("NameError"), out |-> <<>>]
        ELSE IF T_ion.shape = "scalar"
        THEN \* sigma_T is a numpy.float64: item assignment is not supported
             [ret |-> Raise("TypeError"), out |-> <<>>]
        ELSE [ret |-> RetArray(set_nan_and_scale(T_ion, Broadcast("Bosch", b.c, T_ion),
                                                 b.energy_range)),
              out |-> <<>>]

\* T_ion of main_test, in 0.01 keV
main_test_T_ion == <<300, 400, 500, 600, 700, 800, 900, 1000, 10000, 40000>>

RECURSIVE main_test_loop(_, _)
\* for ii in range(len(T_ion)): print( ... cross_section_Bosch( T_ion[ii], reaction='DT' ) )
main_test_loop(ii, printed) ==
    IF ii > Len(main_test_T_ion)
    THEN [ret |-> [kind |-> "None", v |-> <<>>, str |-> "", exc |-> ""], out |-> printed]
    ELSE LET r == cross_section_Bosch(Scalar(main_test_T_ion[ii]), "DT")
         IN  IF r.ret.kind = "raise" THEN [ret |-> r.ret, out |-> printed]
             ELSE main_test_loop(ii + 1, Append(printed, "T_ion ==> sigma"))

main_test == main_test_loop(1, <<>>)

\* energies tried, in 0.01 keV: around the bounds of the four Bosch ranges
ESet == {20, 30, 40, 50, 1000, 55000, 60000, 90000, 100000,
         490000, 495000, 500000, 600000}

EArgs == {Scalar(t) : t \in ESet} \cup {Array(s) : s \in Seqs(ESet, MaxLen)}

\* reaction tags tried: those of the two functions, and tags neither knows
XSTags == {"DT", "TD", "He3D", "DHe3", "DD", "DD_a", "DD_b", "TT", "THe3",
           "DT_a", "XY"}

Call_cross_section_NRL ==
    /\ Idle
    /\ \E E \in EArgs, reaction \in XSTags :
        LET o == cross_section_NRL(E, reaction)
        IN  /\ call' = CallRec("cross_section_NRL", E, StrId(reaction), "", TRUE, TRUE)
            /\ ret' = o.ret
            /\ out' = o.out

Call_cross_section_Bosch ==
    /\ Idle
    /\ \E T \in EArgs, reaction \in XSTags :
        LET o == cross_section_Bosch(T, reaction)
        IN  /\ call' = CallRec("cross_section_Bosch", T, StrId(reaction), "", TRUE, TRUE)
            /\ ret' = o.ret
            /\ out' = o.out

Call_main_test ==
    /\ Idle
    /\ LET o == main_test
       IN  /\ call' = CallRec("main_test", Array(main_test_T_ion), StrId("DT"), "", TRUE, TRUE)
           /\ ret' = o.ret
           /\ out' = o.out

NextXS ==
    \/ Call_cross_section_NRL
    \/ Call_cross_section_Bosch
    \/ Call_main_test

SpecXS == Init /\ [][NextXS]_vars

\* ================================================================ claims
Raised == ret.kind = "raise"
ReturnedFloats == ret.kind \in {"scalar", "array"}

\* the reaction string a reactivity call works with: the reaction_str argument when
\* it is given, otherwise the docstring's name of the integer code ("NaN" for an
\* identifier outside 1..9)
DocName(k) ==
    CASE k = 1 -> "DT"     [] k = 2 -> "DD_a"   [] k = 3 -> "DD_b"
      [] k = 4 -> "3HeD"   [] k = 5 -> "TT"     [] k = 6 -> "T3He"
      [] k = 7 -> "3He3He" [] k = 8 -> "p11B"   [] k = 9 -> "pp"
      [] OTHER -> "NaN"
EffectiveStr ==
    IF call.reaction_str # "" THEN call.reaction_str
    ELSE IF IsInt(call.reaction) THEN DocName(call.reaction.n) ELSE "NaN"

\* the coefficient set and the valid range of the fit the call is made to
FitCoeffs ==
    CASE call.fn = "Hively"  -> coeffs_Hively(EffectiveStr)
      [] call.fn = "Bosch"   -> coeffs_Bosch(EffectiveStr)
      [] call.fn = "McNally" -> coeffs_McNally(EffectiveStr)
      [] call.fn \in {"Angulo", "Atzeni"} -> IF EffectiveStr = "pp" THEN "pp" ELSE "none"
      [] OTHER -> "none"
FitRange ==
    CASE call.fn = "Hively"  -> energy_range_Hively
      [] call.fn = "Bosch"   -> energy_range_Bosch
      [] call.fn = "McNally" -> energy_range_McNally
      [] call.fn = "Angulo"  -> energy_range_Angulo
      [] call.fn = "Atzeni"  -> energy_range_Atzeni
      [] OTHER -> <<0, 0>>
ReactivityFns == {"Hively", "Bosch", "McNally", "Angulo", "Atzeni"}
IsOut(t) == t < FitRange[1] \/ t > FitRange[2]
SomeOut == \E i \in DOMAIN call.T_ion.v : IsOut(call.T_ion.v[i])
SomeIn  == \E i \in DOMAIN call.T_ion.v : ~IsOut(call.T_ion.v[i])
Warned == \E i \in DOMAIN out : out[i] = "WARNING: T_ion is outside of valid energy range"

\* C1: Hively, Bosch, Angulo and Atzeni, called with extrapolate=False for a reaction
\* they have coefficients for and on an array holding both in-range and out-of-range
\* temperatures, return an array of the same length that holds NaN at exactly the
\* out-of-range positions and the formula's finite value at every in-range position.
C1_Case ==
    /\ call.fn \in {"Hively", "Bosch", "Angulo", "Atzeni"}
    /\ ~call.extrapolate
    /\ IsInt(call.reaction)
    /\ FitCoeffs # "none"
    /\ call.T_ion.shape = "array"
    /\ SomeIn /\ SomeOut
C1_ElementwiseMasking ==
    C1_Case =>
        /\ ret.kind = "array"
        /\ Len(ret.v) = Len(call.T_ion.v)
        /\ \A i \in DOMAIN call.T_ion.v :
              /\ IsOut(call.T_ion.v[i]) <=> ret.v[i] = NaN
              /\ ~IsOut(call.T_ion.v[i]) =>
                    ret.v[i] = Val(call.fn, FitCoeffs, call.T_ion.v[i])
C1_Witness ==
    /\ C1_Case
    /\ ret.kind = "array"
    /\ \E i, j \in DOMAIN ret.v :
          /\ ret.v[i] = NaN /\ call.T_ion.v[i] > FitRange[2]
          /\ ret.v[j] # NaN

\* C2: every reactivity function, called with an integer reaction code it has no
\* coefficient set for, returns the NaN sentinel and raises no exception.
C2_UnknownReactionReturnsNaN ==
    (/\ call.fn \in ReactivityFns
     /\ IsInt(call.reaction)
     /\ FitCoeffs = "none")
    => (ret.kind = "scalar" /\ ret.v = <<NaN>>)

\* C3: reaction_int2str, given an identifier outside its known set, emits the
\* diagnostic and returns the string 'NaN' without raising, whatever silent is.
C3_UnknownIdGivesNaNString ==
    (/\ call.fn = "reaction_int2str"
     /\ ~(IsInt(call.reaction) /\ call.reaction.n \in 1..9))
    => /\ ret.kind = "str" /\ ret.str = "NaN"
       /\ \E i \in DOMAIN out :
             out[i] = "reaction_int: ERROR, no reaction for found for provided key"

\* C4: reaction_int2str(k) returns, for every k in 1..9, the string the docstring
\* assigns to k, and no two codes share a string.
C4_Case ==
    /\ call.fn = "reaction_int2str"
    /\ IsInt(call.reaction) /\ call.reaction.n \in 1..9
C4_DocstringMapping ==
    /\ C4_Case => (ret.kind = "str" /\ ret.str = DocName(call.reaction.n))
    /\ \A j, k \in 1..9 : j # k => reaction_dict[j] # reaction_dict[k]
C4_Witness ==
    /\ C4_Case
    /\ call.reaction.n = 3 /\ ~call.silent
    /\ ret.str = "DD_b"

\* C5 as stated: reaction_int2str given an already-canonical reaction string returns
\* that string.
CanonicalStrings == {DocName(k) : k \in 1..9}
C5_Case ==
    /\ call.fn = "reaction_int2str"
    /\ ~IsInt(call.reaction) /\ call.reaction.str \in CanonicalStrings
C7_Case ==
    /\ call.fn = "McNally"
    /\ IsInt(call.reaction)
    /\ FitCoeffs # "none"
    /\ SomeOut
C7_McNallyOutOfRangePolicy ==
    C7_Case =>
        /\ ~Raised
        /\ Warned
        /\ call.extrapolate =>
              (ReturnedFloats /\ \A i \in DOMAIN ret.v : ret.v[i] # NaN)
        /\ (~call.extrapolate /\ Size(call.T_ion) > 1) =>
              (ret.kind = "array" /\ Len(ret.v) = Len(call.T_ion.v)
               /\ \A i \in DOMAIN call.T_ion.v :
                     IsOut(call.T_ion.v[i]) <=> ret.v[i] = NaN)

\* C8: with extrapolate=True a reactivity function given out-of-range temperatures
\* emits the out-of-range warning and returns the fit's computed value for every
\* element, none replaced by NaN.
C8_Case ==
    /\ call.fn \in ReactivityFns
    /\ call.extrapolate
    /\ IsInt(call.reaction)
    /\ FitCoeffs # "none"
    /\ SomeOut
C8_ExtrapolateKeepsValues ==
    C8_Case =>
        /\ Warned
        /\ ReturnedFloats
        /\ Len(ret.v) = Len(call.T_ion.v)
        /\ \A i \in DOMAIN call.T_ion.v :
              ret.v[i] = Val(call.fn, FitCoeffs, call.T_ion.v[i])

\* C6: cross_section_NRL and cross_section_Bosch, called with a reaction tag that has
\* no coefficient entry, return a NaN result and raise no exception.
C6_Case ==
    \/ /\ call.fn = "cross_section_NRL"
       /\ call.reaction.str \notin cross_section_coefficients
    \/ /\ call.fn = "cross_section_Bosch"
       /\ Bosch_branch(call.reaction.str).c = "none"
C6_UnknownTagHandled ==
    C6_Case =>
        /\ ~Raised
        /\ ReturnedFloats
        /\ \A i \in DOMAIN ret.v : ret.v[i] = NaN

\* C9: cross_section_Bosch, for every reaction with coefficients and for an array as
\* well as for a single energy, returns NaN for exactly the energies outside the
\* reaction's valid range and the computed cross-section for those inside.
C9_Case ==
    /\ call.fn = "cross_section_Bosch"
    /\ Bosch_branch(call.reaction.str).c \notin {"none", "DD"}
C9_NaNExactlyOutsideRange ==
    C9_Case =>
        LET b == Bosch_branch(call.reaction.str)
        IN  /\ ReturnedFloats
            /\ Len(ret.v) = Len(call.T_ion.v)
            /\ \A i \in DOMAIN call.T_ion.v :
                  ret.v[i] = IF OutOfRange(call.T_ion.v[i], b.energy_range) THEN NaN
                             ELSE Times(Val("Bosch", b.c, call.T_ion.v[i]), "1e-3")
\* the part of C9 that main_test exercises: every single-value call of its loop returns
C9_MainTestCompletes ==
    call.fn = "main_test" => ~Raised

\* C10: cross_section_Bosch with reaction='DD' returns, for every energy, the sum of
\* cross_section_Bosch for 'DD_a' and for 'DD_b'.
C10_Case ==
    /\ call.fn = "cross_section_Bosch"
    /\ call.reaction.str = "DD"
    /\ call.T_ion.shape = "array"
    /\ Len(call.T_ion.v) > 0
C10_DDIsSumOfBranches ==
    C10_Case =>
        LET a == cross_section_Bosch(call.T_ion, "DD_a").ret
            b == cross_section_Bosch(call.T_ion, "DD_b").ret
        IN  /\ ret.kind = "array"
            /\ Len(ret.v) = Len(call.T_ion.v)
            /\ \A i \in DOMAIN call.T_ion.v : ret.v[i] = Add(a.v[i], b.v[i])

\* ------------------------------------------------ the total D-D curves
\* Three places add the two D-D branches into one curve: main of
\* fusion_cross_sections.py, main of fusion_reactivity.py and the module-level
\* code of "Fusion Cross Section.py" (specification SpecDD).

\* barns_to_SI of main (1e-28) and of the script (1e-24 * 1e-4)
barns_to_SI == "1e-28"
barns_to_SI_script == "1e-24*1e-4"

\* points of np.logspace(0, 3, 501) (10^0, 10^0.3, 10^0.6, 10^1.2, 10^1.5, 10^1.8,
\* 10^2.4, 10^3), rounded to 0.01 keV
logspace_points == {100, 200, 398, 1585, 3162, 6310, 25119, 100000}
\* points of np.linspace(1, 1000, 1000): whole keV from 1 to 1000
linspace_points == {100, 200, 400, 1600, 3200, 6300, 25100, 100000}

\* a grid is sampled as a non-empty increasing array of at most MaxLen of its points
GridArgs(points) ==
    {Array(q) : q \in {s \in Seqs(points, MaxLen) :
                          Len(s) > 0 /\ \A i \in 1..(Len(s) - 1) : s[i] < s[i + 1]}}

\* a + b of two call outcomes: an exception of either operand propagates
plus(a, b) ==
    IF a.ret.kind = "raise" THEN a
    ELSE IF b.ret.kind = "raise" THEN b
    ELSE [ret |-> [kind |-> a.ret.kind,
                   v |-> [i \in DOMAIN a.ret.v |-> Add(a.ret.v[i], b.ret.v[i])],
                   str |-> "", exc |-> ""],
          out |-> a.out \o b.out]

\* factor * x of a call outcome
scaled(factor, x) ==
    IF x.ret.kind = "raise" THEN x
    ELSE [ret |-> [kind |-> x.ret.kind,
                   v |-> [i \in DOMAIN x.ret.v |-> Times(x.ret.v[i], factor)],
                   str |-> "", exc |-> ""],
          out |-> x.out]

\* sigma_DD of main of fusion_cross_sections.py, for either value of dataset
main_sigma_DD(dataset, T_ion) ==
    IF dataset = "NRL"
    THEN scaled(barns_to_SI, plus(cross_section_NRL(T_ion, "DD_a"),
                                  cross_section_NRL(T_ion, "DD_b")))
    ELSE scaled(barns_to_SI, plus(cross_section_Bosch(T_ion, "DD_a"),
                                  cross_section_NRL(T_ion, "DD_b")))

\* the D+D curve of main of fusion_reactivity.py (plot_McNally)
main_DD_McNally(T_ion) ==
    plus(get_fusion_reactivity_McNally(T_ion, IntId(2), TRUE, TRUE),
         get_fusion_reactivity_McNally(T_ion, IntId(3), TRUE, TRUE))

\* sigma_DD of "Fusion Cross Section.py"
script_sigma_DD(E) ==
    scaled(barns_to_SI_script, plus(cross_section_NRL(E, "DD_a"),
                                    cross_section_NRL(E, "DD_b")))

Call_main_sigma_DD ==
    /\ Idle
    /\ \E dataset \in {"NRL", "Bosch"}, T_ion \in GridArgs(logspace_points) :
        LET o == main_sigma_DD(dataset, T_ion)
        IN  /\ call' = CallRec("main_sigma_DD", T_ion, StrId("DD"), dataset, TRUE, TRUE)
            /\ ret' = o.ret
            /\ out' = o.out

Call_main_DD_McNally ==
    /\ Idle
    /\ \E T_ion \in GridArgs(linspace_points) :
        LET o == main_DD_McNally(T_ion)
        IN  /\ call' = CallRec("main_DD_McNally", T_ion, StrId("DD"), "McNally", TRUE, TRUE)
            /\ ret' = o.ret
            /\ out' = o.out

Call_script_sigma_DD ==
    /\ Idle
    /\ \E E \in GridArgs(logspace_points) :
        LET o == script_sigma_DD(E)
        IN  /\ call' = CallRec("script_sigma_DD", E, StrId("DD"), "NRL", TRUE, TRUE)
            /\ ret' = o.ret
            /\ out' = o.out

NextDD ==
    \/ Call_main_sigma_DD
    \/ Call_main_DD_McNally
    \/ Call_script_sigma_DD

SpecDD == Init /\ [][NextDD]_vars

\* the sum of the two D-D branch values of one fit family at abscissa t
FamilySum(family, t) ==
    CASE family = "NRL" ->
            Add(Val("NRL", "DD_a", t), Val("NRL", "DD_b", t))
      [] family = "Bosch" ->
            Add(Times(Val("Bosch", "DD_a", t), "1e-3"), Times(Val("Bosch", "DD_b", t), "1e-3"))
      [] family = "McNally" ->
            Add(Val("McNally", "DD_a", t), Val("McNally", "DD_b", t))
FitFamilies == {"NRL", "Bosch", "McNally"}
TotalDD(t) ==
    UNION {{FamilySum(f, t), Times(FamilySum(f, t), barns_to_SI),
            Times(FamilySum(f, t), barns_to_SI_script)} : f \in FitFamilies}

\* C11: every place that produces a total D-D curve returns, at every point of its
\* grid, the sum of the DD_a and the DD_b value of one and the same fit family
\* (NRL, Bosch or McNally) at that point, possibly scaled to SI units.
C11_Case == call.fn \in {"main_sigma_DD", "main_DD_McNally", "script_sigma_DD"}
C11_TotalDDOfOneFamily ==
    C11_Case =>
        /\ ret.kind = "array"
        /\ Len(ret.v) = Len(call.T_ion.v)
        /\ \A i \in DOMAIN ret.v : ret.v[i] \in TotalDD(call.T_ion.v[i])

\* ------------------------------------------- binding_energy/plot_binding_energy.py
\* Specification SpecNIST. Numbers read from the NIST data are integers in units
\* of 1e-6 (atomic masses in micro-u); a value is a Python float, or a str holding
\* either the decimal text of a number or other text.

\* longest NIST response / file, in lines
MaxLines == 4

\* Value("float", n, ""): the float n; Value("str", n, ""): the decimal text of n;
\* Value("str", 0, t): the text t
Value(type, n, text) == [type |-> type, n |-> n, text |-> text]

\* keys of NIST_dataset
NIST_keys == {"Atomic Number", "Atomic Symbol", "Mass Number", "Relative Atomic Mass"}

\* the lines NIST serves for an isotope (here 1H): 'label = value' or
\* 'label = value(uncertainty)'; a line with a label that is no key; the blank
\* line that ends an isotope's block
NIST_lines ==
    {[label |-> "Atomic Number",        n |-> 1000000, text |-> "",  paren |-> FALSE],
     [label |-> "Atomic Symbol",        n |-> 0,       text |-> "H", paren |-> FALSE],
     [label |-> "Mass Number",          n |-> 1000000, text |-> "",  paren |-> FALSE],
     [label |-> "Relative Atomic Mass", n |-> 1007825, text |-> "",  paren |-> TRUE],
     [label |-> "Isotopic Composition", n |-> 999885,  text |-> "",  paren |-> TRUE],
     [label |-> "",                     n |-> 0,       text |-> "",  paren |-> FALSE]}

\* urlopen(url) against a server answering with status code: the opener's
\* HTTPErrorProcessor raises HTTPError for every final status outside 200..299
urlopen(code) ==
    IF code >= 200 /\ code < 300 THEN [kind |-> "response", code |-> code]
    ELSE [kind |-> "raise", code |-> code]

\* the value the url branch appends for a line that starts with a key:
\* decoded_line[id_0:id_1], the text between '=' and '(' or the end of the line,
\* kept as it is for 'Atomic Symbol' and passed through float() otherwise
url_val(line) ==
    IF line.label = "Atomic Symbol"
    THEN Value("str", 0, " " \o line.text \o (IF line.paren THEN "" ELSE "\n"))
    ELSE Value("float", line.n, "")

\* the value the file branch appends: value.strip() with '(...' split off
file_val(line) ==
    IF line.label = "Atomic Symbol" THEN Value("str", 0, line.text)
    ELSE Value("str", line.n, "")

RECURSIVE read_url_lines(_, _)
\* for line in web_NIST: ... NIST_dataset[ label ].append(val)
read_url_lines(lines, d) ==
    IF lines = <<>> THEN d
    ELSE LET line == Head(lines)
         IN  read_url_lines(Tail(lines),
                 IF line.label \in NIST_keys
                 THEN [d EXCEPT ![line.label] = Append(@, url_val(line))]
                 ELSE d)

\* not all( elem == lengths[0] for elem in lengths )
lengths_differ(d) == \E j, k \in DOMAIN d : Len(d[j]) # Len(d[k])

NIST_warning ==
    <<"WARNING: there is an error in extracting the data for the file",
      "         and sorting it into a dictionary">>

RECURSIVE read_file_lines(_, _, _)
\* for line in open( fname ): ... ; returns the dataset and what was printed
read_file_lines(lines, d, printed) ==
    IF lines = <<>> THEN [d |-> d, out |-> printed]
    ELSE LET line == Head(lines)
             d1 == IF line.label \in NIST_keys
                   THEN [d EXCEPT ![line.label] = Append(@, file_val(line))]
                   ELSE d
         IN  read_file_lines(Tail(lines), d1,
                 IF line.label = "" /\ lengths_differ(d1)
                 THEN printed \o NIST_warning ELSE printed)

\* read_NIST_data( url='', fname='' ): code is the status the server answers
\* with, lines the data served and stored in the file
read_NIST_data(url, fname, code, lines) ==
    LET NIST_dataset == [k \in NIST_keys |-> <<>>]
        web_NIST == urlopen(code)
    IN  IF url # "" /\ web_NIST.kind = "raise"
        THEN [ret |-> Raise("HTTPError"), out |-> <<>>]
        ELSE IF url # "" /\ web_NIST.code # 200
        THEN [ret |-> [kind |-> "int", n |-> -1],
              out |-> <<"ERROR: http-code while trying to read NIST data from web">>]
        ELSE LET d1 == IF url # "" THEN read_url_lines(lines, NIST_dataset)
                       ELSE NIST_dataset
                 f == IF fname # "" THEN read_file_lines(lines, d1, <<>>)
                      ELSE [d |-> d1, out |-> <<>>]
             IN  [ret |-> [kind |-> "dict", d |-> f.d], out |-> f.out]

\* masses of neutron, proton and electron in micro-u, and the energy of one
\* micro-u in eV (amu = 931.494095 MeV per u), each rounded to a whole number
neutron_u == 1008665
proton_u == 1007276
electron_u == 549
amu == 931

\* np.asarray( list, dtype=np.float32 ): a float is taken as it is, a str is
\* parsed as a decimal number, text that is no number raises ValueError
asarray(list) ==
    IF \E i \in DOMAIN list : list[i].type = "str" /\ list[i].text # ""
    THEN [ret |-> Raise("ValueError"), out |-> <<>>]
    ELSE [ret |-> RetArray([i \in DOMAIN list |-> list[i].n]), out |-> <<>>]

\* mutant: the mass is cut to the whole number below it
around_mut_floor(m) == m \div 1000000

\* np.around of a value in micro-units, as a whole number: to the nearest
\* integer, a tie going to the even neighbour
around(m) ==
    LET f == m \div 1000000
        r == m % 1000000
    IN  IF 2 * r < 1000000 THEN f
        ELSE IF 2 * r > 1000000 THEN f + 1
        ELSE IF f % 2 = 0 THEN f ELSE f + 1

\* get_mass_number( NIST_dataset ): NIST_dataset is what read_NIST_data returned
get_mass_number(NIST_dataset) ==
    IF NIST_dataset.kind # "dict"
    THEN \* NIST_dataset['Relative Atomic Mass'] on an int
         [ret |-> Raise("TypeError"), out |-> <<>>]
    ELSE LET atomic_mass == asarray(NIST_dataset.d["Relative Atomic Mass"])
         IN  IF atomic_mass.ret.kind = "raise" THEN atomic_mass
             ELSE [ret |-> RetArray([i \in DOMAIN atomic_mass.ret.v |->
                                        around(atomic_mass.ret.v[i])]),
                   out |-> <<>>]

\* the length two arrays of lengths j and k broadcast to: -1 when they do not
broadcast_len(j, k) ==
    IF j = k THEN j ELSE IF j = 1 THEN k ELSE IF k = 1 THEN j ELSE -1

\* get_binding_energy( NIST_dataset, norm=True ), in eV; the atomic number is a
\* whole number in the NIST data; a quotient of floats is carried as [num, den]
get_binding_energy(NIST_dataset, norm) ==
    IF NIST_dataset.kind # "dict"
    THEN [ret |-> Raise("TypeError"), out |-> <<>>]
    ELSE LET atomic_mass == asarray(NIST_dataset.d["Relative Atomic Mass"])
             atomic_number == asarray(NIST_dataset.d["Atomic Number"])
             mass_number == get_mass_number(NIST_dataset)
         IN  IF atomic_mass.ret.kind = "raise" THEN atomic_mass
             ELSE IF atomic_number.ret.kind = "raise" THEN atomic_number
             ELSE LET at(a, i) == IF Len(a) = 1 THEN a[1] ELSE a[i]
                      M == atomic_mass.ret.v
                      Z == [i \in DOMAIN atomic_number.ret.v |->
                              atomic_number.ret.v[i] \div 1000000]
                      A == mass_number.ret.v
                      len == broadcast_len(Len(A), Len(Z))
                  IN  IF len = -1
                      THEN \* mass_number - atomic_number
                           [ret |-> Raise("ValueError"), out |-> <<>>]
                      ELSE LET n_neutrons == [i \in 1..len |-> at(A, i) - at(Z, i)]
                               mass_defect ==
                                   [i \in 1..len |->
                                       ( ( n_neutrons[i] * neutron_u + at(Z, i) * proton_u
                                           + at(Z, i) * electron_u ) - at(M, i) ) * amu]
                               \* if norm: mass_defect/mass_number  else: mass_defect
                               bind_energy ==
                                   [i \in 1..len |->
                                       IF norm THEN [num |-> mass_defect[i], den |-> at(A, i)]
                                       ELSE [num |-> mass_defect[i], den |-> 1]]
                           IN  [ret |-> RetArray(bind_energy), out |-> <<>>]

\* status codes the NIST server may answer with
HTTP_codes == {200, 204, 404, 500}

\* isotopes <<Z, M in micro-u>>: 1H, 2H, 4He, 56Fe, 62Ni, 235U
Isotopes == {<<1, 1007825>>, <<1, 2014102>>, <<2, 4002603>>,
             <<26, 55934936>>, <<28, 61928345>>, <<92, 235043930>>}

\* the dataset read_NIST_data builds for a list of isotopes: floats when read
\* from the url, strs when read from a file
dataset_of(isos, from) ==
    LET V(n) == Value(IF from = "url" THEN "float" ELSE "str", n, "")
    IN  [kind |-> "dict", d |-> [k \in NIST_keys |->
            [i \in DOMAIN isos |->
                CASE k = "Atomic Number" -> V(isos[i][1] * 1000000)
                  [] k = "Atomic Symbol" -> Value("str", 0, "X")
                  [] k = "Mass Number" -> V(around(isos[i][2]) * 1000000)
                  [] k = "Relative Atomic Mass" -> V(isos[i][2])]]]

Call_read_NIST_data ==
    /\ Idle
    /\ \E url \in {"", "http://physics.nist.gov/"}, fname \in {"", "atomic_weights.dat"},
          code \in HTTP_codes,
          lines \in Seqs(NIST_lines, MaxLines) :
        LET o == read_NIST_data(url, fname, code, lines)
        IN  /\ call' = [fn |-> "read_NIST_data", url |-> url, fname |-> fname,
                        code |-> code, lines |-> lines]
            /\ ret' = o.ret
            /\ out' = o.out

Call_get_binding_energy ==
    /\ Idle
    /\ \E isos \in Seqs(Isotopes, MaxLen), from \in {"url", "file"}, norm \in BOOLEAN :
        LET o == get_binding_energy(dataset_of(isos, from), norm)
        IN  /\ call' = [fn |-> "get_binding_energy", isos |-> isos, from |-> from,
                        norm |-> norm]
            /\ ret' = o.ret
            /\ out' = o.out

\* main() runs in steps; call is its frame: the statement it is at (pc), the
\* server's answer (code, lines), its locals NIST_dataset and mass_number, and the
\* functions it has called

main_enter ==
    /\ Idle
    /\ \E code \in HTTP_codes, lines \in Seqs(NIST_lines, MaxLines) :
        call' = [fn |-> "main", pc |-> "read_NIST_data", code |-> code, lines |-> lines,
                 NIST_dataset |-> [kind |-> "None"], mass_number |-> <<>>,
                 called |-> <<>>]
    /\ ret' = [kind |-> "running"]
    /\ out' = <<>>

\* NIST_dataset = read_NIST_data( url=url )
main_read_NIST_data ==
    /\ call.fn = "main" /\ call.pc = "read_NIST_data"
    /\ LET o == read_NIST_data("http://physics.nist.gov/", "", call.code, call.lines)
           raised == o.ret.kind = "raise"
       IN  /\ call' = [call EXCEPT !.pc = IF raised THEN "exit" ELSE "get_mass_number",
                                   !.NIST_dataset = IF raised THEN @ ELSE o.ret,
                                   !.called = Append(@, "read_NIST_data")]
           /\ ret' = IF raised THEN o.ret ELSE ret
           /\ out' = out \o o.out

\* mass_number = get_mass_number( NIST_dataset )
main_get_mass_number ==
    /\ call.fn = "main" /\ call.pc = "get_mass_number"
    /\ LET o == get_mass_number(call.NIST_dataset)
           raised == o.ret.kind = "raise"
       IN  /\ call' = [call EXCEPT !.pc = IF raised THEN "exit" ELSE "get_binding_energy",
                                   !.mass_number = IF raised THEN @ ELSE o.ret.v,
                                   !.called = Append(@, "get_mass_number")]
           /\ ret' = IF raised THEN o.ret ELSE ret
           /\ out' = out \o o.out

\* bind_energy_norm = get_binding_energy( NIST_dataset, norm=True)
main_get_binding_energy ==
    /\ call.fn = "main" /\ call.pc = "get_binding_energy"
    /\ LET o == get_binding_energy(call.NIST_dataset, TRUE)
           raised == o.ret.kind = "raise"
       IN  /\ call' = [call EXCEPT !.pc = IF raised THEN "exit" ELSE "plot",
                                   !.called = Append(@, "get_binding_energy")]
           /\ ret' = IF raised THEN o.ret ELSE ret
           /\ out' = out \o o.out

\* the plot: ax.set_xlim( min(mass_number), max(mass_number) ) raises ValueError
\* on an empty array; fname_plot is '', so the figure is shown
main_plot ==
    /\ call.fn = "main" /\ call.pc = "plot"
    /\ call' = [call EXCEPT !.pc = "exit"]
    /\ ret' = IF call.mass_number = <<>> THEN Raise("ValueError") ELSE [kind |-> "None"]
    /\ out' = IF call.mass_number = <<>> THEN out ELSE Append(out, "plt.show()")

NextNIST ==
    \/ Call_read_NIST_data
    \/ Call_get_binding_energy
    \/ main_enter
    \/ main_read_NIST_data
    \/ main_get_mass_number
    \/ main_get_binding_energy
    \/ main_plot

SpecNIST == Init /\ [][NextNIST]_vars

\* C12: read_NIST_data, called with a url whose server answers with a status code
\* other than 200, returns -1 and raises no exception (having parsed no line).
C12_Non200ReturnsMinusOne ==
    (call.fn = "read_NIST_data" /\ call.url # "" /\ call.code # 200)
    => (ret.kind = "int" /\ ret.n = -1)

\* C13: once read_NIST_data has handed main the failure value -1, main calls
\* neither get_mass_number nor get_binding_energy.
C13_MainStopsOnFailedFetch ==
    (call.fn = "main" /\ call.NIST_dataset.kind = "int")
    => \A i \in DOMAIN call.called :
          call.called[i] \notin {"get_mass_number", "get_binding_energy"}

\* C14: whenever read_NIST_data returns a dataset whose per-key lists differ in
\* length, read from the url or from a file, it has printed the warning.
C14_LengthMismatchWarned ==
    (call.fn = "read_NIST_data" /\ ret.kind = "dict" /\ lengths_differ(ret.d))
    => \E i \in DOMAIN out : out[i] = NIST_warning[1]

\* C15: get_binding_energy returns, for each isotope of mass M and atomic number
\* Z, with A the whole number nearest to M and N = A - Z, the mass defect
\* (N*m_n + Z*m_p + Z*m_e - M)*amu divided by A when norm is true, and the mass
\* defect itself when norm is false.
Nearest(M) == CHOOSE a \in 0..300 : (2 * (M - a * 1000000) <= 1000000
                                       /\ 2 * (a * 1000000 - M) <= 1000000)
C15_Expected(iso, norm) ==
    LET Z == iso[1]
        M == iso[2]
        A == Nearest(M)
        N == A - Z
        defect == (N * neutron_u + Z * proton_u + Z * electron_u - M) * amu
    IN  IF norm THEN [num |-> defect, den |-> A] ELSE [num |-> defect, den |-> 1]
C15_BindingEnergyFormula ==
    call.fn = "get_binding_energy" =>
        /\ ret.kind = "array"
        /\ Len(ret.v) = Len(call.isos)
        /\ \A i \in DOMAIN call.isos : ret.v[i] = C15_Expected(call.isos[i], call.norm)
\* 56Fe (M = 55.93, rounded up to 56) and 2H (M = 2.01, rounded down to 2), per nucleon
C15_Witness ==
    /\ call.fn = "get_binding_energy"
    /\ call.norm
    /\ call.isos = <<<<26, 55934936>>, <<1, 2014102>>>>
    /\ ret.kind = "array"
    /\ ret.v[1].den = 56 /\ ret.v[2].den = 2

\* ------------------------------------------------------ plasma_zoo/plasma_zoo.py
\* Specification SpecZoo. Densities (m^-3) and temperatures (eV or K) span many
\* decades and are carried as their log10 in units of 0.001 (n = 1e20 is 20000);
\* comparing two logs is comparing the values.

\* log10( consts.e/consts.k ) = log10( 11604.5 ): eV to K
eV_to_K == 4065

\* calc_Trel(): m_e*c^2/e = 5.11e5 eV
calc_Trel == 5708

\* calc_Tdeg( plasma_density ): 3.646e-19 * n^(2/3) eV
calc_Tdeg(plasma_density) == (2 * plasma_density) \div 3 - 18438

\* calc_Tnonideal( plasma_density ): 1.44e-9 * n^(1/3) eV
calc_Tnonideal(plasma_density) == plasma_density \div 3 - 8842

\* calc_debye( n=1e20, T=1, unit='eV' ): 'T *= consts.e/consts.k' rebinds the
\* local name when T is a float and multiplies the caller's array in place when T
\* is a numpy array; then n and T are broadcast. Returns the value and the
\* caller's T as it is after the call.
calc_debye(n, T, unit) ==
    LET T_K == IF unit = "eV"
               THEN [shape |-> T.shape, v |-> [i \in DOMAIN T.v |-> T.v[i] + eV_to_K]]
               ELSE T
        T_after == IF T.shape = "array" THEN T_K ELSE T
        len == broadcast_len(Len(n.v), Len(T.v))
        at(a, i) == IF Len(a) = 1 THEN a[1] ELSE a[i]
    IN  IF len = -1
        THEN [ret |-> Raise("ValueError"), T |-> T_after]
        ELSE [ret |-> [kind |-> IF n.shape = "array" \/ T.shape = "array"
                                THEN "array" ELSE "scalar",
                       v |-> [i \in 1..len |->
                                [fn |-> "calc_debye", n |-> at(n.v, i), T |-> at(T_K.v, i)]],
                       str |-> "", exc |-> ""],
              T |-> T_after]

\* calc_ND( n=1e20, T=1, unit='eV' ): n * 4./3. * np.pi * lambda_D**3
calc_ND(n, T, unit) ==
    LET lambda_D == calc_debye(n, T, unit)
    IN  IF lambda_D.ret.kind = "raise" THEN lambda_D
        ELSE [ret |-> [lambda_D.ret EXCEPT
                          !.v = [i \in DOMAIN @ |-> [@[i] EXCEPT !.fn = "calc_ND"]]],
              T |-> lambda_D.T]

\* samples of np.logspace( np.log10(1e-2), np.log10(1e7), num=1000 ) and of
\* np.logspace( np.log10(1e5), np.log10(1e35), num=2000 )
default_T_vals == <<-2000, 2500, 7000>>
default_n_vals == <<5000, 20000, 35000>>

\* mutant: the relativistic region is not masked
nonideal_ids_mut_no_rel(TT, nn) ==
    \/ TT <= calc_Tdeg(nn)
    \/ TT <= calc_Tnonideal(nn)

\* TT_rel_ids, TT_deg_ids, TT_nonideal_ids at one grid point
nonideal_ids(TT, nn) ==
    \/ TT >= calc_Trel
    \/ TT <= calc_Tdeg(nn)
    \/ TT <= calc_Tnonideal(nn)

\* the array make_lambda_D_contours (calc == "calc_debye") or make_N_D_contours
\* (calc == "calc_ND") hands to ax.contourf / ax.contour: rows are temperatures
contours(calc, T_vals_arg, n_vals_arg) ==
    LET T_vals == IF Len(T_vals_arg) = 0 THEN default_T_vals ELSE T_vals_arg
        n_vals == IF Len(n_vals_arg) = 0 THEN default_n_vals ELSE n_vals_arg
        value(ii, jj) ==
            IF calc = "calc_debye"
            THEN calc_debye(Scalar(n_vals[ii]), Scalar(T_vals[jj]), "eV").ret.v[1]
            ELSE calc_ND(Scalar(n_vals[ii]), Scalar(T_vals[jj]), "eV").ret.v[1]
    IN  [jj \in DOMAIN T_vals |-> [ii \in DOMAIN n_vals |->
            IF nonideal_ids(T_vals[jj], n_vals[ii]) THEN NaN ELSE value(ii, jj)]]

\* log10 of temperatures (eV) and densities (m^-3) tried: the ends of the default
\* grids and points on and off the three limits
T_points == {-2000, -842, 0, 1158, 1562, 3000, 5708, 7000}
n_points == {5000, 24000, 30000, 35000}

\* T_vals / n_vals: left at the default [] or an increasing array
Grids(points) ==
    {s \in Seqs(points, MaxLen) : \A i \in 1..(Len(s) - 1) : s[i] < s[i + 1]}

Call_make_lambda_D_contours ==
    /\ Idle
    /\ \E T_vals \in Grids(T_points), n_vals \in Grids(n_points) :
        /\ call' = [fn |-> "make_lambda_D_contours", T_vals |-> T_vals, n_vals |-> n_vals]
        /\ ret' = [kind |-> "None", Z |-> contours("calc_debye", T_vals, n_vals)]
        /\ out' = <<>>

Call_make_N_D_contours ==
    /\ Idle
    /\ \E T_vals \in Grids(T_points), n_vals \in Grids(n_points) :
        /\ call' = [fn |-> "make_N_D_contours", T_vals |-> T_vals, n_vals |-> n_vals]
        /\ ret' = [kind |-> "None", Z |-> contours("calc_ND", T_vals, n_vals)]
        /\ out' = <<>>

\* n and T as a caller may pass them: a float or an array
ZooArgs(points) ==
    {Scalar(t) : t \in points} \cup {Array(s) : s \in Grids(points) \ {<<>>}}

\* ret.T is the caller's temperature argument as it is after the call
Call_calc_debye ==
    /\ Idle
    /\ \E n \in ZooArgs(n_points), T \in ZooArgs(T_points), unit \in {"eV", "K"} :
        LET o == calc_debye(n, T, unit)
        IN  /\ call' = [fn |-> "calc_debye", n |-> n, T |-> T, unit |-> unit]
            /\ ret' = [kind |-> o.ret.kind, v |-> o.ret.v, exc |-> o.ret.exc, T |-> o.T]
            /\ out' = <<>>

Call_calc_ND ==
    /\ Idle
    /\ \E n \in ZooArgs(n_points), T \in ZooArgs(T_points), unit \in {"eV", "K"} :
        LET o == calc_ND(n, T, unit)
        IN  /\ call' = [fn |-> "calc_ND", n |-> n, T |-> T, unit |-> unit]
            /\ ret' = [kind |-> o.ret.kind, v |-> o.ret.v, exc |-> o.ret.exc, T |-> o.T]
            /\ out' = <<>>

NextZoo ==
    \/ Call_make_lambda_D_contours
    \/ Call_make_N_D_contours
    \/ Call_calc_debye
    \/ Call_calc_ND

SpecZoo == Init /\ [][NextZoo]_vars

\* C16: in the array make_lambda_D_contours or make_N_D_contours hands to the
\* plot, the grid point (n, T) is NaN if and only if T >= T_rel or T <= T_deg(n) or
\* T <= T_nonideal(n); every other grid point holds the value computed for it; and
\* the other of the two functions, on the same grid, has NaN at the same points.
C16_Case == call.fn \in {"make_lambda_D_contours", "make_N_D_contours"}
C16_T == IF Len(call.T_vals) = 0 THEN default_T_vals ELSE call.T_vals
C16_n == IF Len(call.n_vals) = 0 THEN default_n_vals ELSE call.n_vals
C16_Other ==
    contours(IF call.fn = "make_lambda_D_contours" THEN "calc_ND" ELSE "calc_debye",
             call.T_vals, call.n_vals)
C16_MaskIsNonIdealRegion ==
    C16_Case =>
        \A jj \in DOMAIN C16_T, ii \in DOMAIN C16_n :
            LET T == C16_T[jj]
                n == C16_n[ii]
                excluded == \/ T >= calc_Trel
                            \/ T <= calc_Tdeg(n)
                            \/ T <= calc_Tnonideal(n)
            IN  /\ (ret.Z[jj][ii] = NaN) <=> excluded
                /\ ~excluded =>
                      ret.Z[jj][ii] =
                          [fn |-> IF call.fn = "make_lambda_D_contours"
                                  THEN "calc_debye" ELSE "calc_ND",
                           n |-> n, T |-> T + eV_to_K]
                /\ (ret.Z[jj][ii] = NaN) <=> (C16_Other[jj][ii] = NaN)
\* a grid with a relativistic point, a point on the degeneracy limit and an ideal point
C16_Witness ==
    /\ call.fn = "make_N_D_contours"
    /\ call.T_vals = <<1562, 5708>>
    /\ call.n_vals = <<24000, 30000>>
    /\ ret.Z[1][1] # NaN /\ ret.Z[1][2] = NaN /\ ret.Z[2][1] = NaN

\* C17: after calc_debye or calc_ND returns, the temperature array the caller
\* passed holds the values it held before the call.
C17_InputsUnchanged ==
    (call.fn \in {"calc_debye", "calc_ND"} /\ call.T.shape = "array")
    => ret.T = call.T

\* ------------------------------------------- script runs: edge inputs and output
\* Specification SpecRun: the formula functions called with the plain Python
\* floats a script or the command line hands them, and the output step of every
\* script. Figure output is recorded in out next to the console lines.

\* get_fusion_reactivity_Hively called with a Python float T_ion (as test() does):
\* as for a numpy scalar, but a1/T_ion**r in Eq. (5) is Python arithmetic and
\* raises ZeroDivisionError for T_ion = 0.
get_fusion_reactivity_Hively_float(T_ion, reaction, extrapolate, silent) ==
    LET h == get_fusion_reactivity_Hively(Scalar(T_ion), reaction, extrapolate, silent)
    IN  IF T_ion = 0 /\ h.ret.kind # "raise"
        THEN [ret |-> Raise("ZeroDivisionError"),
              out |-> info("get_fusion_reactivity_Hively", silent) \o info_reaction(silent)]
        ELSE h

\* toroidal_helix( R0, a, phi, q ): n = 1./q raises ZeroDivisionError for a Python
\* float q = 0 and is inf for a numpy float64 q = 0, after which cos(n*phi) and
\* sin(n*phi) are nan at every phi. q.n is q in tenths, phi in quarter turns;
\* v[i] stands for the point (x[i], y[i], z[i]).
toroidal_helix(phi, q) ==
    IF q.n = 0 /\ q.type = "float"
    THEN Raise("ZeroDivisionError")
    ELSE [kind |-> "tuple",
          v |-> [i \in DOMAIN phi |->
                    IF q.n = 0 THEN NaN ELSE [fn |-> "toroidal_helix", q |-> q.n, phi |-> phi[i]]],
          str |-> "", exc |-> ""]

\* make_plot( fname_plot='' ) of fusion_reactivity.py, fusion_cross_sections.py,
\* CMA_diagram.py, triple_product_vs_T.py and nTtau_vs_time.py
make_plot(fname_plot) ==
    IF Len(fname_plot) > 0
    THEN <<"plt.savefig", "written plot into file">>
    ELSE <<"plt.show">>

\* make_plot( R0, a, fname_plot, q_fieldline, fieldline_torTurns ) of plot_fieldline.py
fieldline_make_plot(fname_plot, q_fieldline, phi_fieldline) ==
    LET fieldline == toroidal_helix(phi_fieldline, q_fieldline)
    IN  IF fieldline.kind = "raise" THEN [ret |-> fieldline, out |-> <<>>]
        ELSE [ret |-> [kind |-> "None", v |-> <<>>, str |-> "", exc |-> ""],
              out |-> IF Len(fname_plot) > 0 THEN <<"mlab.savefig">> ELSE <<"mlab.show">>]

\* the scripts whose main holds the output filename in a local variable
Scripts == {"fusion_reactivity.py", "CMA_diagram.py", "triple_product_vs_T.py",
            "nTtau_vs_time.py", "plot_binding_energy.py", "plasma_zoo.py"}

\* the output step of main for the value fname_plot its filename variable is set
\* to: main of triple_product_vs_T.py calls make_plot with the literal
\* 'triple_product_vs_T.png' whatever fname_plot is; plot_binding_energy.py and
\* plasma_zoo.py have the if/else in main itself
main_output(script, fname_plot) ==
    CASE script = "triple_product_vs_T.py" -> make_plot("triple_product_vs_T.png")
      [] script \in {"plot_binding_energy.py", "plasma_zoo.py"} ->
            IF Len(fname_plot) > 0 THEN <<"plt.savefig", "    plot written into">>
            ELSE <<"plt.show">>
      [] OTHER -> make_plot(fname_plot)

\* filenames tried
Filenames == {"", "plot.png", "a.pdf"}

\* safety factors (in tenths) and toroidal angles (in quarter turns) tried
q_points == {-20, 0, 10, 27, 35}
phi_points == {0, 1, 2, 4, 40}

Call_Hively_float ==
    /\ Idle
    /\ \E T \in TSet \cup {0}, k \in 0..MaxReactionInt, ex \in BOOLEAN, silent \in BOOLEAN :
        LET o == get_fusion_reactivity_Hively_float(T, IntId(k), ex, silent)
        IN  /\ call' = [fn |-> "Hively_float", T_ion |-> T, reaction |-> k,
                        extrapolate |-> ex, silent |-> silent]
            /\ ret' = o.ret
            /\ out' = o.out

Call_toroidal_helix ==
    /\ Idle
    /\ \E phi \in Grids(phi_points), qn \in q_points, qtype \in {"float", "float64"} :
        /\ call' = [fn |-> "toroidal_helix", phi |-> phi, q |-> qn, qtype |-> qtype]
        /\ ret' = toroidal_helix(phi, [type |-> qtype, n |-> qn])
        /\ out' = <<>>

\* argparse hands q over as a Python float
Call_fieldline_make_plot ==
    /\ Idle
    /\ \E fname_plot \in Filenames, qn \in q_points, phi \in Grids(phi_points) \ {<<>>} :
        LET o == fieldline_make_plot(fname_plot, [type |-> "float", n |-> qn], phi)
        IN  /\ call' = [fn |-> "fieldline_make_plot", script |-> "plot_fieldline.py",
                        fname_plot |-> fname_plot, q |-> qn, phi |-> phi]
            /\ ret' = o.ret
            /\ out' = o.out

Call_main_output ==
    /\ Idle
    /\ \E script \in Scripts, fname_plot \in Filenames :
        /\ call' = [fn |-> "main_output", script |-> script, fname_plot |-> fname_plot]
        /\ ret' = [kind |-> "None", v |-> <<>>, str |-> "", exc |-> ""]
        /\ out' = main_output(script, fname_plot)

\* "Fusion Cross Section.py": fig.savefig with a literal name, for both figures
Call_script_output ==
    /\ Idle
    /\ call' = [fn |-> "script_output", script |-> "Fusion Cross Section.py",
                fname_plot |-> "cross_sections_vs_temperature.png"]
    /\ ret' = [kind |-> "None", v |-> <<>>, str |-> "", exc |-> ""]
    /\ out' = <<"fig.savefig", "fig.savefig">>

NextRun ==
    \/ Call_Hively_float
    \/ Call_McNally
    \/ Call_toroidal_helix
    \/ Call_fieldline_make_plot
    \/ Call_main_output
    \/ Call_script_output

SpecRun == Init /\ [][NextRun]_vars

\* C18: a formula function called on a floating-point edge case (Hively at T = 0,
\* toroidal_helix with q = 0, McNally on a table holding zeros) raises no exception,
\* for a single value as well as for an array.
C18_EdgeCase ==
    \/ call.fn = "Hively_float" /\ call.T_ion = 0 /\ call.reaction \in 1..4
    \/ call.fn = "toroidal_helix" /\ call.q = 0
    \/ call.fn = "McNally" /\ call.reaction = IntId(6) /\ call.T_ion.v # <<>>
         /\ \A i \in DOMAIN call.T_ion.v : ~IsOut(call.T_ion.v[i])
C18_EdgeCasesDoNotRaise == C18_EdgeCase => ret.kind # "raise"

\* C19: the output step of every script, once reached, writes the figure to a file
\* if and only if the output filename is non-empty, and opens the interactive
\* display if and only if the filename is empty.
C19_Case ==
    /\ call.fn \in {"fieldline_make_plot", "main_output", "script_output"}
    /\ ret.kind # "raise"
C19_Saved == \E i \in DOMAIN out : out[i] \in {"plt.savefig", "mlab.savefig", "fig.savefig"}
C19_Shown == \E i \in DOMAIN out : out[i] \in {"plt.show", "mlab.show"}
C19_SaveXorShow ==
    C19_Case =>
        /\ C19_Saved <=> call.fname_plot # ""
        /\ C19_Shown <=> call.fname_plot = ""

\* ---------------------------------------------------- CMA_diagram/CMA_diagram.py
\* Specification SpecCMA. X, Y and annotation positions are in units of 0.001;
\* out holds the calls made on the Axes object, in order.

\* 1000 * np.cos( theta/180.*np.pi ) for the angles (in degrees) used
cos_deg(theta) ==
    CASE theta = 0 -> 1000   [] theta = 10 -> 985   [] theta = 30 -> 866
      [] theta = 60 -> 500   [] theta = 90 -> 0     [] theta = 180 -> -1000

\* np.sqrt( (1.-x)/(1.-x*np.cos(theta/180.*np.pi)) ) for one sample x: 0/0 is nan,
\* a positive number over 0 is inf (which no X in [0, 1] or above 1 produces), the
\* root of a negative number or of -inf is nan
resonance_Y(x, theta) ==
    LET num == 1000 * (1000 - x)
        den == 1000000 - x * cos_deg(theta)
    IN  IF den = 0 THEN (IF num > 0 THEN [fn |-> "inf", x |-> x, theta |-> theta] ELSE NaN)
        ELSE IF (num > 0 /\ den < 0) \/ (num < 0 /\ den > 0) THEN NaN
        ELSE [fn |-> "Y", x |-> x, theta |-> theta]

\* a[ mask ]: the elements of a at the indices where keep holds, in order
RECURSIVE select(_, _)
select(a, keep) ==
    IF a = <<>> THEN <<>>
    ELSE (IF keep[1] THEN <<a[1]>> ELSE <<>>) \o select(Tail(a), Tail(keep))

\* np.max of a 2-element array (np.min(a) is -np.max(-a))
np_max(a) == IF a[1] >= a[2] THEN a[1] ELSE a[2]

\* np.argmin( np.abs(arr_x - x) ): the first index of the smallest distance
argmin_abs(arr_x, x) ==
    LET d(k) == IF arr_x[k] >= x THEN arr_x[k] - x ELSE x - arr_x[k]
    IN  CHOOSE k \in DOMAIN arr_x :
            /\ \A j \in DOMAIN arr_x : d(k) <= d(j)
            /\ \A j \in 1..(k - 1) : d(j) > d(k)

\* the ax.plot and ax.annotate calls of one pass of the loop over theta
curve(arr_x, arr_y, annotation_x) ==
    LET annot_x_id == argmin_abs(arr_x, annotation_x)
    IN  <<[op |-> "plot", x |-> arr_x, y |-> arr_y],
          [op |-> "annotate", x |-> <<arr_x[annot_x_id]>>, y |-> <<arr_y[annot_x_id]>>]>>

\* samples of np.linspace( 0., 1., 200 ): the ends and the point 100/199
Xres_arr_x == <<0, 503, 1000>>

RECURSIVE oplot_Xres(_, _, _)
\* oplot_Xres( ax, theta, annotation_x ), from pass ii of the loop on
oplot_Xres(theta, annotation_x, ii) ==
    IF ii > Len(theta) THEN <<>>
    ELSE LET y == [k \in DOMAIN Xres_arr_x |-> resonance_Y(Xres_arr_x[k], theta[ii])]
             isfinite == [k \in DOMAIN y |-> y[k] # NaN /\ y[k].fn = "Y"]
             arr_x == select(Xres_arr_x, isfinite)
             arr_y == select(y, isfinite)
         IN  curve(arr_x, arr_y, annotation_x[ii])
             \o oplot_Xres(theta, annotation_x, ii + 1)

RECURSIVE oplot_Ores(_, _, _, _)
\* oplot_Ores( ax, theta, annotation_x, x_range ), from pass ii of the loop on; arr_x
\* holds samples of np.linspace( (1.+1e-6), np.max(x_range), 200 ), the first one
\* carried as 1.001, which has the sign of 1 - x*cos(theta) of 1.000001 for every
\* angle used
oplot_Ores(theta, annotation_x, x_range, ii) ==
    IF ii > Len(theta) THEN <<>>
    ELSE LET arr_x == <<1001, 1100, 1500, np_max(x_range)>>
             arr_y == [k \in DOMAIN arr_x |-> resonance_Y(arr_x[k], theta[ii])]
         IN  curve(arr_x, arr_y, annotation_x[ii])
             \o oplot_Ores(theta, annotation_x, x_range, ii + 1)

\* angles and label positions tried: those of main and the limiting angles; theta
\* and annotation_x have the same length, as in main
ThetaArgs ==
    {p \in Seqs({0, 10, 30, 90, 180}, MaxLen) \X Seqs({500, 1200, 1500}, MaxLen) :
        Len(p[1]) = Len(p[2]) /\ Len(p[1]) > 0}

Call_oplot_Xres ==
    /\ Idle
    /\ \E p \in ThetaArgs :
        /\ call' = [fn |-> "oplot_Xres", theta |-> p[1], annotation_x |-> p[2]]
        /\ ret' = [kind |-> "None", v |-> <<>>, str |-> "", exc |-> ""]
        /\ out' = oplot_Xres(p[1], p[2], 1)

Call_oplot_Ores ==
    /\ Idle
    /\ \E p \in ThetaArgs, x1 \in {2000, 3000} :
        /\ call' = [fn |-> "oplot_Ores", theta |-> p[1], annotation_x |-> p[2],
                    x_range |-> <<0, x1>>]
        /\ ret' = [kind |-> "None", v |-> <<>>, str |-> "", exc |-> ""]
        /\ out' = oplot_Ores(p[1], p[2], <<0, x1>>, 1)

\* np.linspace( a, b, 200 ), carried by its samples 0, 99, 100 and 199
linspace(a, b) ==
    [k \in 1..4 |-> a + (<<0, 99, 100, 199>>[k] * (b - a)) \div 199]

\* a - arr for a number a and an array arr; arr - a is -(a - arr)
minus_from_mut_sign(a, arr) == [k \in DOMAIN arr |-> a + arr[k]]
minus_from(a, arr) == [k \in DOMAIN arr |-> a - arr[k]]

\* oplot_Ocut( ax, y_range ) on an Axes whose y-limits are ylim
oplot_Ocut(ylim, y_range) ==
    LET y0 == IF Len(y_range) = 0 THEN ylim[1] ELSE y_range[1]
        y1 == IF Len(y_range) = 0 THEN ylim[2] ELSE y_range[2]
        txt_y == y1 - (3 * (y1 - y0)) \div 10
    IN  <<[op |-> "plot", x |-> <<1000, 1000>>, y |-> <<y0, y1>>],
          [op |-> "annotate", x |-> <<1000>>, y |-> <<txt_y>>]>>

\* oplot_XRcut( ax ) on an Axes whose y-limits are ylim
oplot_XRcut(ylim) ==
    LET arr_x == linspace(0 - np_max(<<0 - ylim[1], 0 - ylim[2]>>), np_max(ylim))
    IN  <<[op |-> "plot", x |-> arr_x, y |-> minus_from(1000, arr_x)],
          [op |-> "annotate", x |-> <<200>>, y |-> <<200>>]>>

\* oplot_XLcut( ax, x_range ) on an Axes whose x-limits are xlim
oplot_XLcut(xlim, x_range_arg) ==
    LET x_range == IF Len(x_range_arg) = 0 THEN xlim ELSE x_range_arg
        arr_x == linspace(1000, np_max(x_range))
    IN  <<[op |-> "plot", x |-> arr_x, y |-> minus_from(0, minus_from(1000, arr_x))],
          [op |-> "annotate", x |-> <<1200>>, y |-> <<330>>]>>

\* limits an Axes can have when a curve is added: those of a new Axes, those left
\* by main's O cut-off line, and wider and narrower ones
AxesLims == {<<0, 1000>>, <<-100, 2100>>, <<0, 3000>>, <<0, 500>>, <<945, 1055>>}

Call_oplot_Ocut ==
    /\ Idle
    /\ \E ylim \in AxesLims, y_range \in {<<>>, <<0, 2000>>, <<500, 1500>>} :
        /\ call' = [fn |-> "oplot_Ocut", lim |-> ylim, range |-> y_range]
        /\ ret' = [kind |-> "None", v |-> <<>>, str |-> "", exc |-> ""]
        /\ out' = oplot_Ocut(ylim, y_range)

Call_oplot_XRcut ==
    /\ Idle
    /\ \E ylim \in AxesLims :
        /\ call' = [fn |-> "oplot_XRcut", lim |-> ylim, range |-> <<>>]
        /\ ret' = [kind |-> "None", v |-> <<>>, str |-> "", exc |-> ""]
        /\ out' = oplot_XRcut(ylim)

Call_oplot_XLcut ==
    /\ Idle
    /\ \E xlim \in AxesLims, x_range \in {<<>>, <<0, 3000>>, <<0, 2000>>} :
        /\ call' = [fn |-> "oplot_XLcut", lim |-> xlim, range |-> x_range]
        /\ ret' = [kind |-> "None", v |-> <<>>, str |-> "", exc |-> ""]
        /\ out' = oplot_XLcut(xlim, x_range)

NextCMA ==
    \/ Call_oplot_Xres
    \/ Call_oplot_Ores
    \/ Call_oplot_Ocut
    \/ Call_oplot_XRcut
    \/ Call_oplot_XLcut

SpecCMA == Init /\ [][NextCMA]_vars

\* C20: every resonance curve oplot_Xres or oplot_Ores plots, and every point it
\* annotates, has as many X as Y values and holds no NaN and no infinite Y.
C20_ResonanceCurvesFinite ==
    call.fn \in {"oplot_Xres", "oplot_Ores"} =>
        \A i \in DOMAIN out :
            /\ Len(out[i].x) = Len(out[i].y)
            /\ \A k \in DOMAIN out[i].y : out[i].y[k] # NaN /\ out[i].y[k].fn = "Y"

\* the plotted polyline (x, y) has the value 0 wherever it reaches X = 1
ZeroAtOne(x, y) ==
    \A i \in 1..(Len(x) - 1) :
        LET lo == 0 - np_max(<<0 - x[i], 0 - x[i + 1]>>)
            hi == np_max(<<x[i], x[i + 1]>>)
        IN  (lo <= 1000 /\ 1000 <= hi) =>
                IF x[i] = x[i + 1] THEN y[i] = 0 /\ y[i + 1] = 0
                ELSE y[i] * (x[i + 1] - 1000) + y[i + 1] * (1000 - x[i]) = 0
\* the plotted polyline reaches X = 1
ReachesOne(x) == \E i \in DOMAIN x, j \in DOMAIN x : x[i] <= 1000 /\ 1000 <= x[j]

\* C21: the curve oplot_XRcut plots is Y = 1 - X and the curve oplot_XLcut plots is
\* Y = X - 1 at every sample, both have Y = 0 where they reach X = 1 (the XL curve
\* starts there), and oplot_Ocut draws its line at X = 1.
C21_CutoffsMeetAtXEqualsOne ==
    /\ call.fn = "oplot_XRcut" =>
        /\ \A k \in DOMAIN out[1].x : out[1].y[k] = 1000 - out[1].x[k]
        /\ ZeroAtOne(out[1].x, out[1].y)
    /\ call.fn = "oplot_XLcut" =>
        /\ \A k \in DOMAIN out[1].x : out[1].y[k] = out[1].x[k] - 1000
        /\ out[1].x[1] = 1000 /\ out[1].y[1] = 0
        /\ ZeroAtOne(out[1].x, out[1].y)
    /\ call.fn = "oplot_Ocut" => out[1].x = <<1000, 1000>>
\* main's case: the XR curve on the Axes left by the O cut-off line crosses X = 1
\* between two samples
C21_Witness ==
    /\ call.fn = "oplot_XRcut" /\ call.lim = <<-100, 2100>>
    /\ ReachesOne(out[1].x) /\ 1000 \notin {out[1].x[k] : k \in DOMAIN out[1].x}
    /\ ZeroAtOne(out[1].x, out[1].y)

\* the value the fit of the call computes at temperature t
Computed(t) ==
    IF call.fn = "McNally" /\ FitCoeffs = "T3He" /\ t <= T_ion_tabulated[10] THEN NaN
    ELSE Val(call.fn, FitCoeffs, t)

\* C22: a reactivity function called for a reaction it has coefficients for and with
\* a single temperature returns the scalar NaN when extrapolate is False and the
\* temperature is outside the valid range, and the computed value, whatever
\* extrapolate is, when the temperature is inside the range.
C22_Case ==
    /\ call.fn \in ReactivityFns
    /\ IsInt(call.reaction)
    /\ FitCoeffs # "none"
    /\ Size(call.T_ion) = 1
C22_SingleTemperature ==
    C22_Case =>
        LET t == call.T_ion.v[1]
        IN  /\ (IsOut(t) /\ ~call.extrapolate) => ret = RetScalar(NaN)
            /\ ~IsOut(t) => ret = RetOf([shape |-> call.T_ion.shape, v |-> <<Computed(t)>>])

\* C23: for every reaction that has a McNally table and temperatures all within
\* 1..1000 keV, get_fusion_reactivity_McNally returns, for every temperature, the
\* finite value of the log-log interpolation between the tabulated neighbours,
\* never NaN.
C23_Case ==
    /\ call.fn = "McNally"
    /\ IsInt(call.reaction)
    /\ FitCoeffs # "none"
    /\ Size(call.T_ion) > 0
    /\ ~SomeOut
coefficients_Bosch_DT ==
    [b_G |-> 343827, mr_c2 |-> 1124656, c1 |-> 117302, c2 |-> 151361, c3 |-> 751886,
     c4 |-> 460643, c5 |-> 135000, c6 |-> -106750, c7 |-> 0]
coefficients_get_DT ==
    [b_G |-> 343827, mr_c2 |-> 1124656, c1 |-> 117302, c2 |-> 151361, c3 |-> 751886,
     c4 |-> 460643, c5 |-> 135000, c6 |-> -106750, c7 |-> 136600]

\* get_DT_fusion_reactivity( T_ion, silent=True ): the value of Eqs. (12)-(14) with
\* the coefficients c at every temperature; with silent False the closing print
\* calls the builtin format( T_ion, sigma_v ), whose second argument must be a str
get_DT_fusion_reactivity(T_ion, silent) ==
    IF ~silent
    THEN [ret |-> Raise("TypeError"),
          out |-> <<"get_DT_fusion_reactivity",
                    "check the doc-string for the corresponding reference">>]
    ELSE [ret |-> RetOf([shape |-> T_ion.shape,
                         v |-> [i \in DOMAIN T_ion.v |->
                                  [fit |-> "Eq. (12)", c |-> coefficients_get_DT,
                                   T |-> T_ion.v[i]]]]),
          out |-> <<>>]

Call_get_DT_fusion_reactivity ==
    /\ Idle
    /\ \E T \in TArgs \ {Array(<<>>)}, silent \in BOOLEAN :
        LET o == get_DT_fusion_reactivity(T, silent)
        IN  /\ call' = CallRec("get_DT_fusion_reactivity", T, IntId(1), "", TRUE, silent)
            /\ ret' = o.ret
            /\ out' = o.out

\* names and device_types of the three branches of get_experimental_dataset
experimental_datasets ==
    [Bosch |->
        [names |->
            <<"T3", "T3", "Pulsator", "T10", "ASDEX", "ASDEX",
              "Tore Supra", "ASDEX Upgrade", "JT60", "Alcator C-mod", "TFTR", "Alcator",
              "JET", "DIII-D", "ASDEX Upgrade", "DIII-D", "TFTR", "TFTR (DT)",
              "JT60U", "JT60U", "JET (DT)", "JET", "JET (DT)", "?",
              "JT60U", "LHD", "LHD", "W7-AS", "W7-A">>,
         device_types |->
            <<2, 2, 2, 2, 2, 2, 2, 2, 2, 2, 2, 2, 2, 2, 2, 2,
              2, 2, 2, 2, 2, 2, 2, 0, 2, 1, 1, 1, 1>>,
         rows |-> 29],
     my_dset |->
        [names |->
            <<"START", "Globus-M", "NSTX", "MAST", "W7-X (lim)", "W7-X (div)",
              "ITER", "TCV">>,
         device_types |-> <<3, 3, 3, 3, 1, 1, 2, 2>>,
         rows |-> 8],
     EUROfusion |->
        [names |->
            <<"T3", "TFR", "T10", "PLT", "ASDEX", "ALC-A",
              "TFR", "ASDEX", "TEXTOR", "PLT", "Tore Supra", "FT",
              "ALC-C", "TFTR", "JT-60", "DIII-D", "JET", "ASDEX-U",
              "DIII-D", "TFTR", "JT-60U", "JET", "DIII-D", "TFTR",
              "JET", "JET", "JET", "JET", "TFTR", "JT-60U",
              "ITER">>,
         device_types |->
            <<2, 2, 2, 2, 2, 2, 2, 2, 2, 2, 2, 2, 2, 2, 2, 2,
              2, 2, 2, 2, 2, 2, 2, 2, 2, 2, 2, 2, 2, 2, 2>>,
         rows |-> 31]]

\* get_experimental_dataset( dataset='Bosch', silent=True ); rows is the number of
\* literals in T_vals and in nTtau_vals, whose elements are carried as the terms
\* [col, dataset, row]; with no branch taken the return statement reads names
\* that are not bound
get_experimental_dataset(dataset, silent) ==
    LET o == IF silent THEN <<>>
             ELSE <<"get_experimental_dataset", "dataset chosen: " \o dataset,
                    "check the doc-string for the corresponding references">>
        column(col) ==
            [i \in 1..experimental_datasets[dataset].rows |->
                [col |-> col, dataset |-> dataset, row |-> i]]
    IN  IF dataset \notin DOMAIN experimental_datasets
        THEN [ret |-> Raise("UnboundLocalError"), out |-> o]
        ELSE [ret |-> [kind |-> "tuple",
                       T_vals |-> column("T_vals"),
                       nTtau_vals |-> column("nTtau_vals"),
                       device_types |-> experimental_datasets[dataset].device_types,
                       names |-> experimental_datasets[dataset].names],
              out |-> o]

\* main of triple_product_vs_T.py, "plot experimental values": the Bosch and my_dset
\* datasets are appended and plotted once per device class
main_plot_experimental_values ==
    LET B == get_experimental_dataset("Bosch", TRUE).ret
        my == get_experimental_dataset("my_dset", TRUE).ret
        T_vals == B.T_vals \o my.T_vals
        nTtau_vals == B.nTtau_vals \o my.nTtau_vals
        device_types == B.device_types \o my.device_types
        class(k) == [i \in DOMAIN device_types |-> device_types[i] = k]
    IN  [k \in 1..3 |->
            [op |-> "plot",
             label |-> <<"Stellarator", "Tokamak", "Spherical tokamak">>[k],
             x |-> select(T_vals, class(k)),
             y |-> select(nTtau_vals, class(k))]]

Call_get_experimental_dataset ==
    /\ Idle
    /\ \E dataset \in {"Bosch", "my_dset", "EUROfusion", "XY"}, silent \in BOOLEAN :
        LET o == get_experimental_dataset(dataset, silent)
        IN  /\ call' = [fn |-> "get_experimental_dataset", dataset |-> dataset,
                        silent |-> silent]
            /\ ret' = o.ret
            /\ out' = o.out

Call_main_plot_experimental_values ==
    /\ Idle
    /\ call' = [fn |-> "main", dataset |-> "Bosch+my_dset", silent |-> TRUE]
    /\ ret' = [kind |-> "None", v |-> <<>>, str |-> "", exc |-> ""]
    /\ out' = main_plot_experimental_values

\* the rows [year, nTtau, name] of the two branches of get_dataset; nTtau in units
\* of 1e-6 (of 1e19 keV m^-3 s)
nTtau_datasets ==
    [
     Ikeda |->
        <<<<1968, 1207, "T3">>, <<1971, 5647, "ST">>, <<1975, 22230, "TFR">>,
          <<1978, 61967, "PLT">>, <<1978, 243930, "Alcator A">>, <<1981, 111644, "PDX">>,
          <<1983, 1212705, "Alcator C">>, <<1984, 858771, "JET">>, <<1984, 462359, "DIII">>,
          <<1986, 1200458, "JET">>, <<1986, 1820043, "TFTR">>, <<1989, 9140703, "JT60U">>,
          <<1991, 12907946, "JT60U">>, <<1992, 44080336, "JT60U">>, <<1993, 106599484, "JT60U">>,
          <<1994, 214742679, "JT60U">>, <<1996, 146018594, "JT60U">>, <<1996, 80228104, "TFTR">>,
          <<1996, 59770900, "DIII-D">>, <<1998, 116796162, "JET">>>>,
     Webster |->
        <<<<1968, 1183, "T3">>, <<1971, 5544, "ST">>, <<1975, 22003, "TFR">>,
          <<1978, 61865, "PLT">>, <<1978, 245202, "Alcator A">>, <<1981, 112802, "PDX">>,
          <<1983, 1202052, "Alcator C">>, <<1984, 457557, "DIII">>, <<1984, 842795, "JET">>,
          <<1986, 1189911, "JET">>, <<1986, 1794614, "TFTR">>, <<1989, 9191399, "JT-60U">>,
          <<1991, 12977200, "JT-60U">>, <<1992, 45031132, "JT-60U">>, <<1993, 107115183, "JT-60U">>,
          <<1994, 218108083, "JT-60U">>, <<1996, 62220160, "DIII-D">>, <<1996, 80325528, "TFTR">>,
          <<1996, 149609733, "JT-60U">>, <<1998, 117253474, "JET">>>>]

\* get_dataset( dataset='Webster' ): with neither branch taken the error is printed
\* and the return statement reads data, which is not bound
get_dataset(dataset) ==
    IF dataset \in DOMAIN nTtau_datasets
    THEN [ret |-> [kind |-> "list", v |-> nTtau_datasets[dataset], n |-> 0], out |-> <<>>]
    ELSE [ret |-> Raise("UnboundLocalError"),
          out |-> <<[op |-> "print", text |-> "ERROR: dataset does not exist"],
                    [op |-> "print", text |-> "possible datasets are ['Ikeda', 'Webster']"]>>]

\* mutant: 'year' and 'nTtau' select each other's column
chNr_mut_columns(data2extract) ==
    CASE data2extract = "year" -> 1 [] data2extract = "nTtau" -> 0
      [] data2extract = "name" -> 2 [] OTHER -> -1

\* chNr of extract_data, -1 where the else branch returns
chNr(data2extract) ==
    CASE data2extract = "year" -> 0 [] data2extract = "nTtau" -> 1
      [] data2extract = "name" -> 2 [] OTHER -> -1

\* extract_data( dataset, data2extract ); len( dataset ) of an int is a TypeError
extract_data(dataset, data2extract) ==
    IF chNr(data2extract) = -1
    THEN [ret |-> [kind |-> "int", v |-> <<>>, n |-> -1],
          out |-> <<[op |-> "print",
                     text |-> "ERROR: only the following data can be extracted: "],
                    [op |-> "print", text |-> "['year', 'nTtau', 'name']"]>>]
    ELSE IF dataset.kind # "list"
    THEN [ret |-> Raise("TypeError"), out |-> <<>>]
    ELSE [ret |-> RetArray([ii \in DOMAIN dataset.v |->
                                dataset.v[ii][chNr(data2extract) + 1]]),
          out |-> <<>>]

\* mutant: the ITER point is among the points fitted
linear_fit_mut_with_ITER(year_vals, nTtau_vals) ==
    LET coefs == [fn |-> "polyfit", x |-> Append(year_vals, 2035),
                  log10_y |-> Append(nTtau_vals, 400000000)]
    IN  <<[op |-> "print", text |-> "fit performed to y  =  a0 + a1*x"],
          [op |-> "print", text |-> "doubling time"],
          [op |-> "plot fit", coefs |-> coefs,
           x_new |-> <<AMin(Array(year_vals)), AMax(Array(year_vals))>>],
          [op |-> "annotate fit", coefs |-> coefs,
           xytext |-> <<1976, (6 * nTtau_vals[2]) \div 10>>]>>

\* the block "if make_fit:" of plot_nTtau_time: the fit is carried as the term
\* naming the arrays handed to poly.polyfit
linear_fit(year_vals, nTtau_vals) ==
    LET coefs == [fn |-> "polyfit", x |-> year_vals, log10_y |-> nTtau_vals]
    IN  <<[op |-> "print", text |-> "fit performed to y  =  a0 + a1*x"],
          [op |-> "print", text |-> "doubling time"],
          [op |-> "plot fit", coefs |-> coefs,
           x_new |-> <<AMin(Array(year_vals)), AMax(Array(year_vals))>>],
          [op |-> "annotate fit", coefs |-> coefs,
           xytext |-> <<1976, (6 * nTtau_vals[2]) \div 10>>]>>

\* plot_nTtau_time( dataset='Webster', add_ITER=True, make_fit=True, fname_plot='' ):
\* the lines printed and the calls made on the figure, in order
plot_nTtau_time(dataset, add_ITER, make_fit, fname_plot) ==
    LET data == get_dataset(dataset)
    IN  IF data.ret.kind = "raise" THEN data
        ELSE
        LET name_vals == extract_data(data.ret, "name").ret.v
            year_vals == extract_data(data.ret, "year").ret.v
            nTtau_vals == extract_data(data.ret, "nTtau").ret.v
            fit == IF make_fit THEN linear_fit(year_vals, nTtau_vals) ELSE <<>>
            nTtau_vals_2 == IF add_ITER THEN Append(nTtau_vals, 400000000) ELSE nTtau_vals
            year_vals_2 == IF add_ITER THEN Append(year_vals, 2035) ELSE year_vals
            name_vals_2 == IF add_ITER THEN Append(name_vals, "ITER") ELSE name_vals
            dpi_scale == IF Len(fname_plot) = 0 THEN 1 ELSE 5
            offset(name, year) ==
                IF name \notin {"Alcator A", "Alcator C", "JT60U", "JT-60U", "JET", "ITER"}
                THEN <<10, -5>>
                ELSE IF name \in {"Alcator A", "Alcator C"}
                THEN (IF add_ITER THEN <<-85, -6>> ELSE <<-90, -6>>)
                ELSE IF name \in {"JT60U", "JT-60U"}
                THEN (IF year < 1990 \/ (year > 1991 /\ year < 1995)
                      THEN (IF add_ITER THEN <<-65, -6>> ELSE <<-64, -6>>)
                      ELSE IF year > 1995 THEN <<-20, 7>>
                      ELSE IF add_ITER THEN <<12, -5>> ELSE <<10, -5>>)
                ELSE IF name = "JET"
                THEN (IF year > 1995 THEN <<-6, 9>>
                      ELSE IF add_ITER THEN <<12, -5>> ELSE <<10, -5>>)
                ELSE <<-48, -6>>
            annotations ==
                [ii \in DOMAIN name_vals_2 |->
                    [op |-> "annotate", text |-> name_vals_2[ii],
                     xy |-> <<year_vals_2[ii], nTtau_vals_2[ii]>>,
                     xytext |-> <<offset(name_vals_2[ii], year_vals_2[ii])[1] * dpi_scale,
                                  offset(name_vals_2[ii], year_vals_2[ii])[2] * dpi_scale>>]]
            output == [k \in DOMAIN make_plot(fname_plot) |->
                          [op |-> make_plot(fname_plot)[k], text |-> fname_plot]]
        IN  [ret |-> [kind |-> "None", v |-> <<>>, str |-> "", exc |-> ""],
             out |-> fit
                     \o <<[op |-> "plot", x |-> year_vals_2, y |-> nTtau_vals_2]>>
                     \o annotations
                     \o <<[op |-> "fig.text", text |-> "credit_str"]>>
                     \o output]

Call_get_dataset ==
    /\ Idle
    /\ \E dataset \in {"Ikeda", "Webster", "Bosch", ""} :
        LET o == get_dataset(dataset)
        IN  /\ call' = [fn |-> "get_dataset", dataset |-> dataset, silent |-> TRUE]
            /\ ret' = o.ret
            /\ out' = o.out

Call_extract_data ==
    /\ Idle
    /\ \E dataset \in {[kind |-> "list", v |-> SubSeq(nTtau_datasets[d], 1, k), n |-> 0] :
                            d \in DOMAIN nTtau_datasets, k \in {0, 1, 2, 20}}
                        \cup {[kind |-> "int", v |-> <<>>, n |-> -1]},
          data2extract \in {"year", "nTtau", "name", "names", "Year", ""} :
        LET o == extract_data(dataset, data2extract)
        IN  /\ call' = [fn |-> "extract_data", dataset |-> dataset,
                        data2extract |-> data2extract, silent |-> TRUE]
            /\ ret' = o.ret
            /\ out' = o.out

Call_plot_nTtau_time ==
    /\ Idle
    /\ \E dataset \in {"Ikeda", "Webster", "Bosch"}, add_ITER \in BOOLEAN,
          make_fit \in BOOLEAN, fname_plot \in {"", "nTtau_vs_time.png"} :
        LET o == plot_nTtau_time(dataset, add_ITER, make_fit, fname_plot)
        IN  /\ call' = [fn |-> "plot_nTtau_time", dataset |-> dataset,
                        add_ITER |-> add_ITER, make_fit |-> make_fit,
                        fname_plot |-> fname_plot, silent |-> TRUE]
            /\ ret' = o.ret
            /\ out' = o.out

NextTP ==
    \/ Call_get_DT_fusion_reactivity
    \/ Call_get_experimental_dataset
    \/ Call_main_plot_experimental_values
    \/ Call_get_dataset
    \/ Call_extract_data
    \/ Call_plot_nTtau_time

SpecTP == Init /\ [][NextTP]_vars

\* C24: get_DT_fusion_reactivity returns, for every ion temperature, the value that
\* get_fusion_reactivity_Bosch returns for reaction=1: Eq. (12) evaluated with the
\* same coefficients b_G, mr_c2, c1 ... c7.
C24_SameAsBosch ==
    (call.fn = "get_DT_fusion_reactivity" /\ call.silent) =>
        LET b == get_fusion_reactivity_Bosch(call.T_ion, IntId(1), TRUE, TRUE)
        IN  /\ ret.kind = b.ret.kind
            /\ Len(ret.v) = Len(b.ret.v)
            /\ \A i \in DOMAIN ret.v :
                  /\ b.ret.v[i].fit = "Bosch" /\ b.ret.v[i].reaction = "DT"
                  /\ ret.v[i] = [fit |-> "Eq. (12)", c |-> coefficients_Bosch_DT,
                                 T |-> b.ret.v[i].T]

\* the outcome of the call of the current state made with silent=True instead
SilentTwin ==
    CASE call.fn = "reaction_int2str" -> reaction_int2str(call.reaction, TRUE)
      [] call.fn = "Hively" ->
            get_fusion_reactivity_Hively(call.T_ion, call.reaction, call.extrapolate, TRUE)
      [] call.fn = "Bosch" ->
            get_fusion_reactivity_Bosch(call.T_ion, call.reaction, call.extrapolate, TRUE)
      [] call.fn = "McNally" ->
            get_fusion_reactivity_McNally(call.T_ion, call.reaction, call.extrapolate, TRUE)
      [] call.fn = "Angulo" ->
            get_fusion_reactivity_Angulo(call.T_ion, call.reaction, call.reaction_str,
                                         call.extrapolate, TRUE)
      [] call.fn = "Atzeni" ->
            get_fusion_reactivity_Atzeni(call.T_ion, call.reaction, call.reaction_str,
                                         call.extrapolate, TRUE)
      [] call.fn = "get_DT_fusion_reactivity" -> get_DT_fusion_reactivity(call.T_ion, TRUE)

\* C25: a formula function called with silent=False returns what the same call with
\* silent=True returns, and raises only what that call raises.
C25_Case ==
    /\ call.fn \in ReactivityFns \cup {"reaction_int2str", "get_DT_fusion_reactivity"}
    /\ ~call.silent
C25_SilentOnlyAffectsOutput == C25_Case => ret = SilentTwin.ret

\* C26: in a call of Hively, Bosch or McNally, a temperature equal to the lower or
\* the upper bound of the valid range is inside the range: when no other temperature
\* is outside, no warning is printed and values are returned, and in every returned
\* result the element of such a temperature is the computed value, with extrapolate
\* true or false.
OnBound(t) == t = FitRange[1] \/ t = FitRange[2]
C26_Case ==
    /\ call.fn \in {"Hively", "Bosch", "McNally"}
    /\ IsInt(call.reaction)
    /\ FitCoeffs # "none"
    /\ \E i \in DOMAIN call.T_ion.v : OnBound(call.T_ion.v[i])
C26_BoundsInclusive ==
    C26_Case =>
        /\ ~SomeOut => (~Warned /\ ReturnedFloats)
        /\ ReturnedFloats =>
              /\ Len(ret.v) = Size(call.T_ion)
              /\ \A i \in DOMAIN call.T_ion.v :
                    OnBound(call.T_ion.v[i]) => ret.v[i] = Computed(call.T_ion.v[i])
\* both bounds in one array, extrapolate=False
C26_Witness ==
    /\ C26_Case
    /\ ~call.extrapolate
    /\ call.T_ion = Array(<<FitRange[1], FitRange[2]>>)
    /\ ret = RetArray(<<Computed(FitRange[1]), Computed(FitRange[2])>>)
    /\ ~Warned
\* a bound next to an out-of-range temperature, extrapolate=False: only the latter
\* is masked
C26_MixedArray ==
    /\ C26_Case
    /\ ~call.extrapolate /\ SomeOut /\ ReturnedFloats
    /\ \E i \in DOMAIN ret.v : ret.v[i] = NaN
    /\ \E i \in DOMAIN ret.v : OnBound(call.T_ion.v[i]) /\ ret.v[i] # NaN

\* C27: for each of its dataset names get_experimental_dataset returns four arrays
\* of equal length whose device types are all 1, 2 or 3, and main plots every point
\* of the combined Bosch and my_dset data in exactly one of the three device classes.
PlottedIn(k, p) == \E i \in DOMAIN out[k].x : out[k].x[i] = p
C27_DatasetsClassified ==
    /\ (call.fn = "get_experimental_dataset" /\ call.dataset \in {"Bosch", "my_dset", "EUROfusion"}) =>
        /\ ret.kind = "tuple"
        /\ Len(ret.T_vals) = Len(ret.names)
        /\ Len(ret.nTtau_vals) = Len(ret.names)
        /\ Len(ret.device_types) = Len(ret.names)
        /\ \A i \in DOMAIN ret.device_types : ret.device_types[i] \in {1, 2, 3}
    /\ call.fn = "main" =>
        \A d \in {"Bosch", "my_dset"} :
            \A i \in 1..experimental_datasets[d].rows :
                \E k \in 1..3 :
                    /\ PlottedIn(k, [col |-> "T_vals", dataset |-> d, row |-> i])
                    /\ \A j \in (1..3) \ {k} :
                          ~PlottedIn(j, [col |-> "T_vals", dataset |-> d, row |-> i])

\* the rows of the dataset of the call, and column c of them
Rows == nTtau_datasets[call.dataset]
Column(c) == [i \in DOMAIN Rows |-> Rows[i][c]]
Ops(op) == {i \in DOMAIN out : out[i].op = op}

\* C28: plot_nTtau_time with make_fit and add_ITER both true fits the dataset's own
\* points only; after the fit the name, year and value arrays each hold one more
\* element, the ITER point of 2035, which is plotted and annotated as the last point.
C28_Case ==
    /\ call.fn = "plot_nTtau_time"
    /\ call.make_fit /\ call.add_ITER
    /\ call.dataset \in DOMAIN nTtau_datasets
C28_FitExcludesITER ==
    C28_Case =>
        /\ \E f \in Ops("plot fit"), p \in Ops("plot") :
              /\ f < p
              /\ out[f].coefs.x = Column(1)
              /\ out[f].coefs.log10_y = Column(2)
              /\ out[p].x = Append(Column(1), 2035)
              /\ out[p].y = Append(Column(2), 400000000)
              /\ \A a \in Ops("annotate") : a > p
        /\ Cardinality(Ops("plot fit")) = 1 /\ Cardinality(Ops("plot")) = 1
        /\ Cardinality(Ops("annotate")) = Len(Rows) + 1
        /\ \E a \in Ops("annotate") :
              /\ \A b \in Ops("annotate") : b <= a
              /\ out[a].text = "ITER"
              /\ out[a].xy = <<2035, 400000000>>
        /\ \A a \in Ops("annotate"), b \in Ops("annotate") :
              (out[a].text = "ITER" /\ out[b].text = "ITER") => a = b
C28_Witness ==
    /\ C28_Case
    /\ call.dataset = "Webster" /\ call.fname_plot = "nTtau_vs_time.png"
    /\ Cardinality(Ops("annotate")) = 21
    /\ \E f \in Ops("plot fit") : Len(out[f].coefs.x) = 20

\* C29: extract_data called on a list of rows with 'year', 'nTtau' or 'name' returns
\* an array with one element per row, in row order, element i being column 0, 1 or 2
\* of row i; with any other field name it prints the error and returns -1, whatever
\* the dataset is.
C29_Col == CASE call.data2extract = "year" -> 1 [] call.data2extract = "nTtau" -> 2
             [] call.data2extract = "name" -> 3 [] OTHER -> 0
C29_ExtractData ==
    call.fn = "extract_data" =>
        /\ (C29_Col # 0 /\ call.dataset.kind = "list") =>
              /\ ret.kind = "array"
              /\ Len(ret.v) = Len(call.dataset.v)
              /\ \A i \in DOMAIN ret.v : ret.v[i] = call.dataset.v[i][C29_Col]
        /\ C29_Col = 0 =>
              /\ ret = [kind |-> "int", v |-> <<>>, n |-> -1]
              /\ Len(out) = 2
              /\ out[1].text = "ERROR: only the following data can be extracted: "
C29_Witness ==
    /\ call.fn = "extract_data"
    /\ call.data2extract = "name"
    /\ call.dataset.kind = "list" /\ Len(call.dataset.v) = 20
    /\ ret.kind = "array" /\ Len(ret.v) = 20
    /\ ret.v[12] = "JT-60U"
\* an unknown field name with a dataset that is no list: -1 is returned
C29_UnknownField ==
    /\ call.fn = "extract_data"
    /\ call.data2extract = "Year" /\ call.dataset.kind = "int"
    /\ ret.kind = "int" /\ ret.n = -1

\* C30: get_dataset called with a name other than 'Ikeda' or 'Webster' prints its
\* error message with the possible datasets and returns without raising.
C30_UnknownDatasetReturns ==
    (call.fn = "get_dataset" /\ call.dataset \notin {"Ikeda", "Webster"}) =>
        /\ ret.kind # "raise"
        /\ \E i \in DOMAIN out : out[i].text = "ERROR: dataset does not exist"
====
